---- MODULE Spec2Model ----
(***************************************************************************)
(* Model of the Lotto analysis engine (src/analysis.py).                   *)
(*                                                                         *)
(* A draw history is held in `draws`; every public analysis operation is   *)
(* an action that reads the history and leaves its outcome in `outcome`,   *)
(* `result` and `ran`.  Floating point quantities are carried as exact     *)
(* rationals <<numerator, denominator>>; quantities that need sqrt, erfc   *)
(* or a distribution function are carried by their exact arguments.        *)
(***************************************************************************)
EXTENDS Integers, Sequences, FiniteSets, TLC

(***************************************************************************)
(* Program constants (src/analysis.py:18-27).                              *)
(***************************************************************************)
TOTAL_BALLS == 45
BALLS_PER_DRAW == 6
ODD_BALLS == 23
EVEN_BALLS == 22
LOW_BALLS == 22
HIGH_BALLS == 23
MinSuiteBits == 100
VALID_BIT_ENCODINGS == {"presence", "parity", "binary"}

(***************************************************************************)
(* Bounds of the model.                                                    *)
(***************************************************************************)
MaxDraws == 3
MaxLag == 3
LongLen == 17
MaxSuiteShort == 3
MaxRepeat == 10
MaxRotation == 3
MaxSample == 2
MaxBitLen == 101

\* Draw numbers up to MaxDrawNo exist at the remote site and in save_draws
\* calls, which hand over at most MaxSaved draws.
MaxDrawNo == 3

MaxSaved == 2

(***************************************************************************)
(* Generic helpers: sequences, ordered mappings, rationals.                *)
(***************************************************************************)
Abs(x) == IF x < 0 THEN -x ELSE x

Min2(a, b) == IF a <= b THEN a ELSE b

\* sum(s[lo..hi]), splitting the range in halves.
RECURSIVE SumRange(_, _, _)
SumRange(s, lo, hi) ==
    IF lo > hi THEN 0
    ELSE IF lo = hi THEN s[lo]
    ELSE LET mid == (lo + hi) \div 2
         IN  SumRange(s, lo, mid) + SumRange(s, mid + 1, hi)

SumSeq(s) == SumRange(s, 1, Len(s))

RECURSIVE Concat(_)
Concat(ss) == IF ss = <<>> THEN <<>> ELSE Head(ss) \o Concat(Tail(ss))

SeqToSet(s) == {s[i] : i \in DOMAIN s}

CountOf(s, v) == Cardinality({i \in DOMAIN s : s[i] = v})

\* The elements of a finite set of integers in ascending order (range(...)
\* restricted to the set).
RECURSIVE AscendingSeq(_)
AscendingSeq(S) ==
    IF S = {} THEN <<>>
    ELSE LET m == CHOOSE x \in S : \A y \in S : x <= y
         IN  <<m>> \o AscendingSeq(S \ {m})

\* The distinct values of s (outside `seen`) in order of first appearance: the
\* key order of a Counter/dict filled by walking s.
FirstSeen(s, seen) ==
    LET firsts == {i \in DOMAIN s :
                      s[i] \notin seen /\ \A j \in 1..(i - 1) : s[j] # s[i]}
        order == AscendingSeq(firsts)
    IN  [k \in DOMAIN order |-> s[order[k]]]

\* An ordered mapping (Python dict / Counter) is a sequence of <<key, value>>
\* pairs in insertion order.
Keys(items) == [i \in DOMAIN items |-> items[i][1]]

Values(items) == [i \in DOMAIN items |-> items[i][2]]

KeySet(items) == {items[i][1] : i \in DOMAIN items}

Get(items, k, default) ==
    IF k \in KeySet(items)
    THEN items[CHOOSE i \in DOMAIN items : items[i][1] = k][2]
    ELSE default

\* Counter built by `for x in s: counts[x] += 1`.
Counter(s) ==
    LET ks == FirstSeen(s, {})
    IN  [i \in DOMAIN ks |-> <<ks[i], CountOf(s, ks[i])>>]

\* sorted(d.items()) for a mapping with distinct integer keys.
RECURSIVE SortedItems(_)
SortedItems(items) ==
    IF items = <<>> THEN <<>>
    ELSE LET i == CHOOSE j \in DOMAIN items :
                      \A k \in DOMAIN items : items[j][1] <= items[k][1]
             rest == [k \in 1..(Len(items) - 1) |->
                          IF k < i THEN items[k] ELSE items[k + 1]]
         IN  <<items[i]>> \o SortedItems(rest)

\* Optional values: None is the empty tuple, Some(x) the one-element tuple.
None == <<>>

Some(x) == <<x>>

\* Exact rationals <<numerator, denominator>> with a positive denominator.
RECURSIVE Gcd(_, _)
Gcd(a, b) == IF b = 0 THEN a ELSE Gcd(b, a % b)

RatNorm(r) ==
    LET g == Gcd(Abs(r[1]), Abs(r[2]))
        sign == IF r[2] < 0 THEN -1 ELSE 1
    IN  IF r[1] = 0 THEN <<0, 1>> ELSE <<sign * (r[1] \div g), sign * (r[2] \div g)>>

RatAdd(a, b) ==
    LET g == Gcd(a[2], b[2])
    IN  RatNorm(<<a[1] * (b[2] \div g) + b[1] * (a[2] \div g), a[2] * (b[2] \div g)>>)

RatMul(a, b) ==
    LET x == RatNorm(<<a[1], b[2]>>)
        y == RatNorm(<<b[1], a[2]>>)
    IN  RatNorm(<<x[1] * y[1], x[2] * y[2]>>)

RECURSIVE RatSum(_)
RatSum(rs) == IF rs = <<>> THEN <<0, 1>> ELSE RatAdd(Head(rs), RatSum(Tail(rs)))

\* Subsequence of the elements that satisfy a test, order kept.
RECURSIVE SelectLags(_, _)
SelectLags(entries, n) ==
    IF entries = <<>> THEN <<>>
    ELSE IF n - Head(entries).lag > 0
         THEN <<Head(entries)>> \o SelectLags(Tail(entries), n)
         ELSE SelectLags(Tail(entries), n)

\* math.comb for 0 <= k (0 when k > n).
RECURSIVE comb(_, _)
comb(n, k) ==
    IF k > n THEN 0
    ELSE IF k = 0 THEN 1
    ELSE (comb(n, k - 1) * (n - k + 1)) \div k

TOTAL_COMBINATIONS == comb(TOTAL_BALLS, BALLS_PER_DRAW)

DIGIT_COUNTS ==
    [d \in 0..9 |-> Cardinality({num \in 1..TOTAL_BALLS : num % 10 = d})]

(***************************************************************************)
(* Draw histories.  A draw is a LottoDraw record; `numbers` keeps the      *)
(* order in which the six numbers were received.                           *)
(***************************************************************************)
DrawPool ==
    { [numbers |-> <<1, 2, 3, 4, 5, 6>>,       bonus |-> 7],
      [numbers |-> <<1, 3, 5, 7, 9, 11>>,      bonus |-> 2],
      [numbers |-> <<2, 4, 6, 8, 10, 12>>,     bonus |-> 45],
      [numbers |-> <<45, 3, 17, 22, 40, 8>>,   bonus |-> 3] }

LottoDraw(no, d) == [draw_no |-> no, numbers |-> d.numbers, bonus |-> d.bonus]

MakeHistory(f) == [i \in DOMAIN f |-> LottoDraw(i, f[i])]

ShortHistories ==
    UNION { {MakeHistory(f) : f \in [1..n -> DrawPool]} : n \in 0..MaxDraws }

\* Histories for the randomness suite: two draws alternating, short ones and
\* ones long enough to yield 100 bits under every encoding.
AlternatingHistory(a, b, n) ==
    MakeHistory([i \in 1..n |-> IF i % 2 = 1 THEN a ELSE b])

SuiteHistories ==
    { AlternatingHistory(a, b, n) :
          a \in DrawPool, b \in DrawPool, n \in (0..MaxSuiteShort) \cup {LongLen} }

\* Histories of the documented scenarios: one draw repeated, and fifteen
\* draws in which every number of 1..45 is drawn exactly twice (draw i holds
\* the i-th and the next block of three numbers), started at any rotation.
RepeatedHistory(d, n) == MakeHistory([i \in 1..n |-> d])

BalancedDraw(i) ==
    [numbers |-> <<3 * i - 2, 3 * i - 1, 3 * i,
                   3 * (i % 15) + 1, 3 * (i % 15) + 2, 3 * (i % 15) + 3>>,
     bonus |-> ((3 * i + 6) % 45) + 1]

BalancedHistory(k) == MakeHistory([i \in 1..15 |-> BalancedDraw(((i + k - 1) % 15) + 1)])

ScenarioHistories ==
    { RepeatedHistory(d, n) : d \in DrawPool, n \in 1..MaxRepeat }
        \cup { BalancedHistory(k) : k \in 0..MaxRotation }

\* Bit sequences handed to the randomness tests directly: a pattern
\* repeated up to a length around the 100-bit minimum, and a run of zeros
\* followed by a run of ones.
PatternBits(pattern, n) == [i \in 1..n |-> pattern[((i - 1) % Len(pattern)) + 1]]

HalfHalf(n) == [i \in 1..n |-> IF 2 * i <= n THEN 0 ELSE 1]

BitPatterns ==
    { <<0, 1>>, <<1, 0>>, <<0, 0, 1, 1>>, <<1>>, <<0, 0, 1>>, <<1, 1, 1, 0>>,
      <<0, 1, 1, 0, 1, 0, 0, 1>>, <<0, 0, 0, 1, 0, 1, 1, 1, 1, 0>>,
      <<1, 1, 1, 0, 1, 1, 0, 1, 1, 0>>, <<0, 0, 0, 1, 0, 0, 1, 0, 0, 1>> }

BitInputs ==
    { PatternBits(pattern, n) : pattern \in BitPatterns, n \in 99..MaxBitLen }
        \cup { HalfHalf(n) : n \in 99..MaxBitLen }

VARIABLES
    draws,      \* the draw history handed to the analysis operations
    op,         \* the operation of the call in progress, "idle" between calls
    args,       \* the scalar arguments of that call
    outcome,    \* "ok", or the failure condition the call raised
    result,     \* the value the call returned (NoResult when it raised)
    ran,        \* the component tests the call executed, in order
    stream,     \* the bit sequence handed to a randomness test called directly
    storage,    \* the stored draws: the records of the draw file, or the table rows
    use_database_storage    \* the configured backend, fixed for a run

vars == <<draws, op, args, outcome, result, ran, stream, storage, use_database_storage>>

NoResult == [kind |-> "none"]

NoArgs ==
    [max_lag |-> 0, encoding |-> "none", block_size |-> 0, serial_block |-> 0,
     sample_size |-> 0, rng |-> <<>>, simulated |-> <<>>,
     saved |-> <<>>, latest_no |-> 0, failing |-> 0, write_fails |-> FALSE]

Ok(v) == [outcome |-> "ok", value |-> v]

Raise(e) == [outcome |-> e, value |-> NoResult]

(***************************************************************************)
(* 4.1 / 4.2  Sequence derivation and number frequencies.                  *)
(***************************************************************************)
_flatten_numbers(ds) == Concat([i \in DOMAIN ds |-> ds[i].numbers])

calculate_number_frequencies_unsorted(ds) ==
    LET counts == Counter(_flatten_numbers(ds))
        missing == AscendingSeq((1..TOTAL_BALLS) \ KeySet(counts))
    IN  counts \o [i \in DOMAIN missing |-> <<missing[i], 0>>]

calculate_number_frequencies(ds) ==
    LET counts == Counter(_flatten_numbers(ds))
        missing == AscendingSeq((1..TOTAL_BALLS) \ KeySet(counts))
        withDefaults == counts \o [i \in DOMAIN missing |-> <<missing[i], 0>>]
    IN  SortedItems(withDefaults)

(***************************************************************************)
(* 4.3  Runs testing.                                                      *)
(***************************************************************************)
\* runs = 1 + number of adjacent unequal pairs (zip(sequence, sequence[1:])).
RunsCount(sequence) ==
    1 + Cardinality({i \in 1..(Len(sequence) - 1) : sequence[i] # sequence[i + 1]})

ParitySequence(ds) ==
    LET flat == _flatten_numbers(ds) IN [i \in DOMAIN flat |-> flat[i] % 2]

\* The statistics shared by both runs tests, from the counts of ones and
\* zeros.  sqrt(variance) is the divisor of the z-score: a zero variance
\* makes that float division raise ZeroDivisionError, a negative one makes
\* sqrt raise.
RunsStatistics(runs, n0, n1) ==
    LET n == n0 + n1
        expected_runs == <<2 * n0 * n1 + n, n>>
        variance == <<2 * n0 * n1 * (2 * n0 * n1 - n0 - n1), n * n * (n - 1)>>
    IN  IF variance[1] < 0 THEN Raise("MathDomainError")
        ELSE IF variance[1] = 0 THEN Raise("ZeroDivisionError")
        ELSE Ok([kind |-> "runs",
                 runs |-> runs,
                 expected_runs |-> expected_runs,
                 variance |-> variance,
                 z_numerator |-> <<runs * n - expected_runs[1], n>>,
                 total_observations |-> n])

runs_test_even_odd(ds) ==
    LET sequence == ParitySequence(ds)
        runs == RunsCount(sequence)
        n1 == SumSeq(sequence)
        n0 == Len(sequence) - n1
    IN  IF Len(sequence) < 2 THEN Raise("InsufficientData")
        ELSE IF n0 = 0 \/ n1 = 0 THEN Raise("DegenerateSequence")
        ELSE RunsStatistics(runs, n0, n1)

DrawSums(ds) == [i \in DOMAIN ds |-> SumSeq(ds[i].numbers)]

\* sorted(values) for a list that may hold repeated values.
RECURSIVE SortedValues(_)
SortedValues(s) ==
    IF s = <<>> THEN <<>>
    ELSE LET i == CHOOSE j \in DOMAIN s : \A k \in DOMAIN s : s[j] <= s[k]
             rest == [k \in 1..(Len(s) - 1) |-> IF k < i THEN s[k] ELSE s[k + 1]]
         IN  <<s[i]>> \o SortedValues(rest)

\* statistics.median of a non-empty list, as the rational <<2 * median, 2>>.
Median(s) ==
    LET sorted == SortedValues(s)
        n == Len(s)
    IN  IF n % 2 = 1 THEN <<2 * sorted[(n + 1) \div 2], 2>>
        ELSE <<sorted[n \div 2] + sorted[n \div 2 + 1], 2>>

\* 1 if draw_sum >= median_threshold else 0.
SumSequence_strict(ds) ==
    LET sums == DrawSums(ds)
        median_threshold == Median(sums)
    IN  [i \in DOMAIN sums |->
            IF sums[i] * median_threshold[2] > median_threshold[1] THEN 1 ELSE 0]

SumSequence(ds) ==
    LET sums == DrawSums(ds)
        median_threshold == Median(sums)
    IN  [i \in DOMAIN sums |->
            IF sums[i] * median_threshold[2] >= median_threshold[1] THEN 1 ELSE 0]

runs_test_on_sums(ds) ==
    LET sums == DrawSums(ds) IN
    IF Len(sums) < 2 THEN Raise("InsufficientData")
    ELSE LET sequence == SumSequence(ds)
             runs == RunsCount(sequence)
             n1 == SumSeq(sequence)
             n0 == Len(sequence) - n1
             stats == RunsStatistics(runs, n0, n1)
         IN  IF n0 = 0 \/ n1 = 0 THEN Raise("DegenerateSequence")
             ELSE IF stats.outcome # "ok" THEN stats
             ELSE Ok([stats.value EXCEPT !.kind = "sum_runs"]
                         @@ [median_threshold |-> Median(sums)])

(***************************************************************************)
(* 4.2  Gap histogram.                                                     *)
(***************************************************************************)
\* zip(sorted_numbers, sorted_numbers[1:]): curr - prev over the sorted draw.
DrawGaps(draw) ==
    LET sorted_numbers == SortedValues(draw.numbers)
    IN  [i \in 1..(Len(sorted_numbers) - 1) |-> sorted_numbers[i + 1] - sorted_numbers[i]]

ObservedGaps(ds) == Concat([i \in DOMAIN ds |-> DrawGaps(ds[i])])

gap_histogram_unsorted(ds) ==
    SortedItems(Counter(Concat([i \in DOMAIN ds |->
        [k \in 1..(Len(ds[i].numbers) - 1) |-> ds[i].numbers[k + 1] - ds[i].numbers[k]]])))

gap_histogram(ds) == SortedItems(Counter(ObservedGaps(ds)))

(***************************************************************************)
(* 4.2  Uniformity test.                                                   *)
(***************************************************************************)
\* scipy.stats.chisquare against equal expected counts e = e_num / e_den:
\* sum((o - e)^2 / e) as one exact rational.
ChiSquareEqualExpected_unsquared(observed, e_num, e_den) ==
    <<SumSeq([i \in DOMAIN observed |-> observed[i] * e_den - e_num]), e_den * e_num>>

ChiSquareEqualExpected(observed, e_num, e_den) ==
    <<SumSeq([i \in DOMAIN observed |->
                 (observed[i] * e_den - e_num) * (observed[i] * e_den - e_num)]),
      e_den * e_num>>

chi_square_uniformity_test(ds) ==
    IF Len(ds) = 0 THEN Raise("NoData")
    ELSE LET frequencies == calculate_number_frequencies(ds)
             observed == [num \in 1..TOTAL_BALLS |-> Get(frequencies, num, 0)]
             total_observations == Len(ds) * BALLS_PER_DRAW
             expected_count == <<total_observations, TOTAL_BALLS>>
             expected == [num \in 1..TOTAL_BALLS |-> expected_count]
         IN  Ok([kind |-> "chi_square",
                 statistic |-> ChiSquareEqualExpected(observed, expected_count[1],
                                                      expected_count[2]),
                 observed |-> observed,
                 expected |-> expected])

(***************************************************************************)
(* 4.5  Pattern chi-square tests.  The statistic and p-value are scipy's   *)
(* chisquare over the observed and expected values carried here.           *)
(***************************************************************************)
\* f"{a}:{BALLS_PER_DRAW - a}"
SplitKey(a) == ToString(a) \o ":" \o ToString(BALLS_PER_DRAW - a)

\* Counter for string keys, by first appearance.
StringCounter(keys) ==
    LET ks == FirstSeen(keys, {})
    IN  [i \in DOMAIN ks |-> <<ks[i], CountOf(keys, ks[i])>>]

CountOdd(numbers) == Cardinality({i \in DOMAIN numbers : numbers[i] % 2 = 1})

CountLow(numbers) == Cardinality({i \in DOMAIN numbers : numbers[i] <= LOW_BALLS})

parity_pattern_analysis_miscounted(ds) ==
    IF Len(ds) = 0 THEN Raise("NoData")
    ELSE LET counts == StringCounter([i \in DOMAIN ds |-> SplitKey(CountOdd(ds[i].numbers))])
         IN  Ok([kind |-> "pattern",
                 observed |-> [j \in 1..(BALLS_PER_DRAW + 1) |->
                                  <<SplitKey(j - 1), Get(counts, SplitKey(j - 1), 0)>>],
                 expected |-> [j \in 1..(BALLS_PER_DRAW + 1) |->
                                  <<SplitKey(j - 1),
                                    <<comb(ODD_BALLS, j - 1)
                                          * comb(ODD_BALLS, BALLS_PER_DRAW - (j - 1))
                                          * Len(ds),
                                      TOTAL_COMBINATIONS>> >>]])

parity_pattern_analysis(ds) ==
    IF Len(ds) = 0 THEN Raise("NoData")
    ELSE LET counts == StringCounter([i \in DOMAIN ds |-> SplitKey(CountOdd(ds[i].numbers))])
         IN  Ok([kind |-> "pattern",
                 observed |-> [j \in 1..(BALLS_PER_DRAW + 1) |->
                                  <<SplitKey(j - 1), Get(counts, SplitKey(j - 1), 0)>>],
                 expected |-> [j \in 1..(BALLS_PER_DRAW + 1) |->
                                  <<SplitKey(j - 1),
                                    <<comb(ODD_BALLS, j - 1)
                                          * comb(EVEN_BALLS, BALLS_PER_DRAW - (j - 1))
                                          * Len(ds),
                                      TOTAL_COMBINATIONS>> >>]])

low_high_pattern_analysis_sparse(ds) ==
    IF Len(ds) = 0 THEN Raise("NoData")
    ELSE LET counts == StringCounter([i \in DOMAIN ds |-> SplitKey(CountLow(ds[i].numbers))])
         IN  Ok([kind |-> "pattern",
                 observed |-> counts,
                 expected |-> [j \in 1..(BALLS_PER_DRAW + 1) |->
                                  <<SplitKey(j - 1),
                                    <<comb(LOW_BALLS, j - 1)
                                          * comb(HIGH_BALLS, BALLS_PER_DRAW - (j - 1))
                                          * Len(ds),
                                      TOTAL_COMBINATIONS>> >>]])

low_high_pattern_analysis(ds) ==
    IF Len(ds) = 0 THEN Raise("NoData")
    ELSE LET counts == StringCounter([i \in DOMAIN ds |-> SplitKey(CountLow(ds[i].numbers))])
         IN  Ok([kind |-> "pattern",
                 observed |-> [j \in 1..(BALLS_PER_DRAW + 1) |->
                                  <<SplitKey(j - 1), Get(counts, SplitKey(j - 1), 0)>>],
                 expected |-> [j \in 1..(BALLS_PER_DRAW + 1) |->
                                  <<SplitKey(j - 1),
                                    <<comb(LOW_BALLS, j - 1)
                                          * comb(HIGH_BALLS, BALLS_PER_DRAW - (j - 1))
                                          * Len(ds),
                                      TOTAL_COMBINATIONS>> >>]])

last_digit_analysis(ds) ==
    IF Len(ds) = 0 THEN Raise("NoData")
    ELSE LET flat == _flatten_numbers(ds)
             counts == StringCounter([i \in DOMAIN flat |-> ToString(flat[i] % 10)])
             total_numbers == Len(ds) * BALLS_PER_DRAW
         IN  Ok([kind |-> "pattern",
                 observed |-> [j \in 1..10 |->
                                  <<ToString(j - 1), Get(counts, ToString(j - 1), 0)>>],
                 expected |-> [j \in 1..10 |->
                                  <<ToString(j - 1),
                                    <<DIGIT_COUNTS[j - 1] * total_numbers, TOTAL_BALLS>> >>]])

(***************************************************************************)
(* 4.6  Distribution comparison against a simulated reference.  `rng` is   *)
(* the sequence of combinations rng.sample returned, one per simulated     *)
(* draw.  The chi-square and Kolmogorov-Smirnov statistics are scipy's     *)
(* over the histograms and samples carried here.                           *)
(***************************************************************************)
_simulate_reference_draws(rng) ==
    LET draw == [i \in DOMAIN rng |-> SortedValues(rng[i])]
        sum_samples == [i \in DOMAIN rng |-> SumSeq(draw[i])]
        gap_samples == Concat([i \in DOMAIN rng |->
                          [k \in 1..(Len(draw[i]) - 1) |-> draw[i][k + 1] - draw[i][k]]])
    IN  [sum_samples |-> sum_samples, sum_hist |-> Counter(sum_samples),
         gap_samples |-> gap_samples, gap_hist |-> Counter(gap_samples)]

\* scaled[key] = (sim_count / simulated_total) * observed_total.
_scale_simulated_hist_unguarded(simulated_hist, simulated_total, observed_total) ==
    IF FALSE THEN Raise("EmptyReference")
    ELSE Ok([i \in DOMAIN simulated_hist |->
                <<simulated_hist[i][1],
                  RatNorm(<<simulated_hist[i][2] * observed_total,
                            IF simulated_total = 0 THEN 1 ELSE simulated_total>>)>>])

_scale_simulated_hist(simulated_hist, simulated_total, observed_total) ==
    IF simulated_total = 0 THEN Raise("EmptyReference")
    ELSE Ok([i \in DOMAIN simulated_hist |->
                <<simulated_hist[i][1],
                  RatNorm(<<simulated_hist[i][2] * observed_total, simulated_total>>)>>])

\* The floor 1e-9 of an expected value.
EPSILON == <<1, 1000000000>>

\* max(value, 1e-9) for a scaled count: a scaled count is 0 or at least
\* 1 / simulated_total, which is above 1e-9 for every reference of fewer
\* than 10^9 samples.
FloorAtEpsilon(value) == IF value[1] <= 0 THEN EPSILON ELSE value

\* stats.chisquare refuses observed and expected frequencies whose sums
\* differ by more than the relative tolerance 1e-8:
\* |f_obs.sum - f_exp.sum| / min(f_obs.sum, f_exp.sum) > 1e-8.  The expected
\* sum is the sum of the scaled counts plus 1e-9 per floored key.  Scaled
\* counts are multiples of 1 / simulated_total, so a scaled sum other than
\* the observed sum is off by far more than the tolerance for references of
\* fewer than 10^8 samples; with equal sums the difference is floored * 1e-9
\* over the observed sum.
SumsDisagree(observed_sum, scaled_sum, floored) ==
    IF scaled_sum[1] # observed_sum * scaled_sum[2] THEN TRUE
    ELSE IF floored = 0 THEN FALSE
    ELSE observed_sum = 0 \/ floored > 10 * observed_sum

_chi_square_from_histograms_nofloor(observed, expected_scaled) ==
    LET keys == AscendingSeq(KeySet(observed) \cup KeySet(expected_scaled))
        observed_hist == [i \in DOMAIN keys |-> <<keys[i], Get(observed, keys[i], 0)>>]
        expected_hist == [i \in DOMAIN keys |->
                             <<keys[i], Get(expected_scaled, keys[i], <<0, 1>>)>>]
        floored == Cardinality({i \in DOMAIN keys :
                                   Get(expected_scaled, keys[i], <<0, 1>>)[1] <= 0})
    IN  IF SumsDisagree(SumSeq(Values(observed_hist)),
                        RatSum(Values(expected_scaled)), floored)
        THEN Raise("FrequencySumMismatch")
        ELSE Ok([observed_hist |-> observed_hist, expected_hist |-> expected_hist])

_chi_square_from_histograms(observed, expected_scaled) ==
    LET keys == AscendingSeq(KeySet(observed) \cup KeySet(expected_scaled))
        observed_hist == [i \in DOMAIN keys |-> <<keys[i], Get(observed, keys[i], 0)>>]
        expected_hist == [i \in DOMAIN keys |->
                             <<keys[i],
                               FloorAtEpsilon(Get(expected_scaled, keys[i], <<0, 1>>))>>]
        floored == Cardinality({i \in DOMAIN keys :
                                   Get(expected_scaled, keys[i], <<0, 1>>)[1] <= 0})
    IN  IF SumsDisagree(SumSeq(Values(observed_hist)),
                        RatSum(Values(expected_scaled)), floored)
        THEN Raise("FrequencySumMismatch")
        ELSE Ok([observed_hist |-> observed_hist, expected_hist |-> expected_hist])

DistributionFailure(e, steps) == [outcome |-> e, value |-> NoResult, ran |-> steps]

\* The steps both comparisons share: scale the reference, chi-square over
\* the histograms, two-sample Kolmogorov-Smirnov over the raw samples
\* (ks_2samp refuses an empty sample).
CompareWithReference(observed_samples, observed_hist, simulated_samples, simulated_hist) ==
    LET expected_scaled == _scale_simulated_hist(simulated_hist, Len(simulated_samples),
                                                 Len(observed_samples))
    IN  IF expected_scaled.outcome # "ok"
        THEN DistributionFailure(expected_scaled.outcome, <<"scale">>)
        ELSE LET chi == _chi_square_from_histograms(observed_hist, expected_scaled.value)
             IN  IF chi.outcome # "ok"
                 THEN DistributionFailure(chi.outcome, <<"scale", "chi_square">>)
                 ELSE IF Len(observed_samples) = 0 \/ Len(simulated_samples) = 0
                 THEN DistributionFailure("EmptySample", <<"scale", "chi_square", "ks_2samp">>)
                 ELSE [outcome |-> "ok",
                       value |-> [kind |-> "distribution",
                                  observed_histogram |-> chi.value.observed_hist,
                                  expected_histogram |-> chi.value.expected_hist],
                       ran |-> <<"scale", "chi_square", "ks_2samp">>]

\* `simulated` is None or Some([samples |-> .., hist |-> ..]).
sum_distribution_analysis(ds, rng, simulated) ==
    LET actual_sums == DrawSums(ds)
        observed_hist == Counter(actual_sums)
        reference == _simulate_reference_draws(rng)
        simulated_sums == IF simulated = None THEN reference.sum_samples
                          ELSE simulated[1].samples
        simulated_hist == IF simulated = None THEN reference.sum_hist
                          ELSE simulated[1].hist
    IN  CompareWithReference(actual_sums, observed_hist, simulated_sums, simulated_hist)

gap_distribution_analysis(ds, rng, simulated) ==
    LET observed_gaps == ObservedGaps(ds)
        observed_hist == Counter(observed_gaps)
        reference == _simulate_reference_draws(rng)
        simulated_gaps == IF simulated = None THEN reference.gap_samples
                          ELSE simulated[1].samples
        simulated_hist == IF simulated = None THEN reference.gap_hist
                          ELSE simulated[1].hist
    IN  CompareWithReference(observed_gaps, observed_hist, simulated_gaps, simulated_hist)

(***************************************************************************)
(* 4.4  Dependency analysis.                                               *)
(***************************************************************************)
_binary_series_for_number(ds, number) ==
    [i \in DOMAIN ds |-> IF number \in SeqToSet(ds[i].numbers) THEN 1 ELSE 0]

\* The coefficient is carried with numerator and denominator both scaled by
\* n^2: (x - mean) = (n*x - sum) / n.
_autocorrelation_anylag(series, lag) ==
    LET n == Len(series)
        total == SumSeq(series)
        numerator == SumSeq([i \in 1..(IF n - lag > 0 THEN n - lag ELSE 0) |->
                                (n * series[i] - total) * (n * series[i + lag] - total)])
        denominator == SumSeq([i \in 1..n |->
                                  (n * series[i] - total) * (n * series[i] - total)])
    IN  IF lag <= 0 THEN None
        ELSE IF denominator = 0 THEN Some(<<0, 1>>)
        ELSE Some(RatNorm(<<numerator, denominator>>))

_autocorrelation(series, lag) ==
    LET n == Len(series)
        total == SumSeq(series)
        numerator == SumSeq([i \in 1..(IF n - lag > 0 THEN n - lag ELSE 0) |->
                                (n * series[i] - total) * (n * series[i + lag] - total)])
        denominator == SumSeq([i \in 1..n |->
                                  (n * series[i] - total) * (n * series[i] - total)])
    IN  IF lag <= 0 \/ lag >= n THEN None
        ELSE IF denominator = 0 THEN Some(<<0, 1>>)
        ELSE Some(RatNorm(<<numerator, denominator>>))

\* Returns (q_stat, p_value); the p-value is chi2.sf(q_stat, len(valid)) and
\* is carried by its degrees of freedom.
_ljung_box_wrongdf(series_length, lag_results) ==
    LET valid == SelectLags(lag_results, series_length)
    IN  IF valid = <<>> THEN [q_stat |-> None, p_value |-> None]
        ELSE [q_stat |->
                  Some(RatMul(<<series_length * (series_length + 2), 1>>,
                              RatSum([i \in DOMAIN valid |->
                                         RatMul(RatMul(valid[i].coefficient,
                                                       valid[i].coefficient),
                                                <<1, series_length - valid[i].lag>>)]))),
              p_value |-> Some([df |-> Len(valid) + 1])]

_ljung_box(series_length, lag_results) ==
    LET valid == SelectLags(lag_results, series_length)
    IN  IF valid = <<>> THEN [q_stat |-> None, p_value |-> None]
        ELSE [q_stat |->
                  Some(RatMul(<<series_length * (series_length + 2), 1>>,
                              RatSum([i \in DOMAIN valid |->
                                         RatMul(RatMul(valid[i].coefficient,
                                                       valid[i].coefficient),
                                                <<1, series_length - valid[i].lag>>)]))),
              p_value |-> Some([df |-> Len(valid)])]

\* The lag loop of number_autocorrelation: lags 1..max_lag, skipping None.
RECURSIVE LagEntries(_, _, _)
LagEntries(series, lag, max_lag) ==
    IF lag > max_lag THEN <<>>
    ELSE LET coeff == _autocorrelation(series, lag)
         IN  IF coeff = None THEN LagEntries(series, lag + 1, max_lag)
             ELSE <<[lag |-> lag,
                     coefficient |-> coeff[1],
                     sample_size |-> Len(series) - lag]>>
                  \o LagEntries(series, lag + 1, max_lag)

number_autocorrelation(ds, max_lag) ==
    IF Len(ds) < 2 THEN Raise("InsufficientData")
    ELSE Ok([kind |-> "autocorrelation",
             results |->
                 [number \in 1..TOTAL_BALLS |->
                     LET series == _binary_series_for_number(ds, number)
                         lag_entries == LagEntries(series, 1, max_lag)
                         lb == _ljung_box(Len(series), lag_entries)
                     IN  [number |-> number,
                          lags |-> lag_entries,
                          ljung_box_q |-> lb.q_stat,
                          p_value |-> lb.p_value]]])

\* scipy.stats.chi2_contingency refuses a table whose expected frequencies
\* (row total * column total / grand total) contain a zero.
ExpectedTable(table) ==
    LET row == [i \in 1..2 |-> table[i][1] + table[i][2]]
        col == [j \in 1..2 |-> table[1][j] + table[2][j]]
        total == row[1] + row[2]
    IN  [i \in 1..2 |-> [j \in 1..2 |-> <<row[i] * col[j], total>>]]

\* One step of the loop over zip(draws, draws[1:]): the four running totals.
RECURSIVE CarryOverTotals(_, _)
CarryOverTotals(ds, i) ==
    IF i >= Len(ds)
    THEN [prev_in_total |-> 0, prev_in_success |-> 0,
          prev_out_total |-> 0, prev_out_success |-> 0]
    ELSE LET prev_set == SeqToSet(ds[i].numbers)
             curr_set == SeqToSet(ds[i + 1].numbers)
             rest == CarryOverTotals(ds, i + 1)
         IN  [prev_in_total |-> rest.prev_in_total + Cardinality(prev_set),
              prev_in_success |-> rest.prev_in_success
                                      + Cardinality(prev_set \cap curr_set),
              prev_out_total |-> rest.prev_out_total
                                     + (TOTAL_BALLS - Cardinality(prev_set)),
              prev_out_success |-> rest.prev_out_success
                                       + Cardinality(curr_set \ prev_set)]

carry_over_analysis_outtotal(ds) ==
    IF Len(ds) < 2 THEN Raise("InsufficientData")
    ELSE LET t == CarryOverTotals(ds, 1)
             prev_in_fail == t.prev_in_total - t.prev_in_success
             prev_out_fail == t.prev_out_total
             contingency == << <<t.prev_in_success, prev_in_fail>>,
                               <<t.prev_out_success, prev_out_fail>> >>
             expected == ExpectedTable(contingency)
         IN  IF \E i \in 1..2, j \in 1..2 : expected[i][j][1] = 0
             THEN Raise("ZeroExpectedFrequency")
             ELSE Ok([kind |-> "carry_over",
                      previous_hit_probability |->
                          IF t.prev_in_total # 0
                          THEN <<t.prev_in_success, t.prev_in_total>> ELSE <<0, 1>>,
                      previous_miss_probability |->
                          IF t.prev_out_total # 0
                          THEN <<t.prev_out_success, t.prev_out_total>> ELSE <<0, 1>>,
                      expected |-> expected,
                      contingency_table |-> contingency])

carry_over_analysis_unguarded(ds) ==
    IF FALSE THEN Raise("InsufficientData")
    ELSE LET t == CarryOverTotals(ds, 1)
             prev_in_fail == t.prev_in_total - t.prev_in_success
             prev_out_fail == t.prev_out_total - t.prev_out_success
             contingency == << <<t.prev_in_success, prev_in_fail>>,
                               <<t.prev_out_success, prev_out_fail>> >>
             expected == ExpectedTable(contingency)
         IN  IF \E i \in 1..2, j \in 1..2 : expected[i][j][1] = 0
             THEN Raise("ZeroExpectedFrequency")
             ELSE Ok([kind |-> "carry_over",
                      previous_hit_probability |->
                          IF t.prev_in_total # 0
                          THEN <<t.prev_in_success, t.prev_in_total>> ELSE <<0, 1>>,
                      previous_miss_probability |->
                          IF t.prev_out_total # 0
                          THEN <<t.prev_out_success, t.prev_out_total>> ELSE <<0, 1>>,
                      expected |-> expected,
                      contingency_table |-> contingency])

carry_over_analysis_failtotal(ds) ==
    IF Len(ds) < 2 THEN Raise("InsufficientData")
    ELSE LET t == CarryOverTotals(ds, 1)
             prev_in_fail == t.prev_in_total
             prev_out_fail == t.prev_out_total - t.prev_out_success
             contingency == << <<t.prev_in_success, prev_in_fail>>,
                               <<t.prev_out_success, prev_out_fail>> >>
             expected == ExpectedTable(contingency)
         IN  IF \E i \in 1..2, j \in 1..2 : expected[i][j][1] = 0
             THEN Raise("ZeroExpectedFrequency")
             ELSE Ok([kind |-> "carry_over",
                      previous_hit_probability |->
                          IF t.prev_in_total # 0
                          THEN <<t.prev_in_success, t.prev_in_total>> ELSE <<0, 1>>,
                      previous_miss_probability |->
                          IF t.prev_out_total # 0
                          THEN <<t.prev_out_success, t.prev_out_total>> ELSE <<0, 1>>,
                      expected |-> expected,
                      contingency_table |-> contingency])

carry_over_analysis(ds) ==
    IF Len(ds) < 2 THEN Raise("InsufficientData")
    ELSE LET t == CarryOverTotals(ds, 1)
             prev_in_fail == t.prev_in_total - t.prev_in_success
             prev_out_fail == t.prev_out_total - t.prev_out_success
             contingency == << <<t.prev_in_success, prev_in_fail>>,
                               <<t.prev_out_success, prev_out_fail>> >>
             expected == ExpectedTable(contingency)
         IN  IF \E i \in 1..2, j \in 1..2 : expected[i][j][1] = 0
             THEN Raise("ZeroExpectedFrequency")
             ELSE Ok([kind |-> "carry_over",
                      previous_hit_probability |->
                          IF t.prev_in_total # 0
                          THEN <<t.prev_in_success, t.prev_in_total>> ELSE <<0, 1>>,
                      previous_miss_probability |->
                          IF t.prev_out_total # 0
                          THEN <<t.prev_out_success, t.prev_out_total>> ELSE <<0, 1>>,
                      expected |-> expected,
                      contingency_table |-> contingency])

(***************************************************************************)
(* Composed summaries over the stored history.                             *)
(***************************************************************************)
SummaryFailure(e, components) == [outcome |-> e, value |-> NoResult, ran |-> components]

summarize_draws_partial(ds) ==
    IF Len(ds) = 0 THEN SummaryFailure("NoData", <<>>)
    ELSE LET chi_square == chi_square_uniformity_test(ds)
             runs == runs_test_even_odd(ds)
         IN  [outcome |-> "ok",
              value |-> [kind |-> "summary",
                         total_draws |-> Len(ds),
                         chi_square |-> chi_square.value,
                         runs_test |-> runs.value,
                         gap_histogram |-> gap_histogram(ds),
                         frequency |-> calculate_number_frequencies(ds)],
              ran |-> <<"chi_square_uniformity_test", "runs_test_even_odd",
                        "gap_histogram", "calculate_number_frequencies">>]

summarize_draws(ds) ==
    IF Len(ds) = 0 THEN SummaryFailure("NoData", <<>>)
    ELSE LET chi_square == chi_square_uniformity_test(ds)
             runs == runs_test_even_odd(ds)
         IN  IF chi_square.outcome # "ok"
             THEN SummaryFailure(chi_square.outcome, <<"chi_square_uniformity_test">>)
             ELSE IF runs.outcome # "ok"
             THEN SummaryFailure(runs.outcome,
                                 <<"chi_square_uniformity_test", "runs_test_even_odd">>)
             ELSE [outcome |-> "ok",
                   value |-> [kind |-> "summary",
                              total_draws |-> Len(ds),
                              chi_square |-> chi_square.value,
                              runs_test |-> runs.value,
                              gap_histogram |-> gap_histogram(ds),
                              frequency |-> calculate_number_frequencies(ds)],
                   ran |-> <<"chi_square_uniformity_test", "runs_test_even_odd",
                             "gap_histogram", "calculate_number_frequencies">>]

dependency_summary(ds, max_lag) ==
    IF Len(ds) < 2 THEN SummaryFailure("InsufficientData", <<>>)
    ELSE LET autocorr_results == number_autocorrelation(ds, max_lag)
             carry_over == carry_over_analysis(ds)
         IN  IF autocorr_results.outcome # "ok"
             THEN SummaryFailure(autocorr_results.outcome, <<"number_autocorrelation">>)
             ELSE IF carry_over.outcome # "ok"
             THEN SummaryFailure(carry_over.outcome,
                                 <<"number_autocorrelation", "carry_over_analysis">>)
             ELSE [outcome |-> "ok",
                   value |-> [kind |-> "dependency",
                              autocorrelation |-> autocorr_results.value.results,
                              carry_over |-> carry_over.value],
                   ran |-> <<"number_autocorrelation", "carry_over_analysis">>]

(***************************************************************************)
(* 4.1 / 4.7  Bit encodings and the NIST-style randomness suite.           *)
(* The records keep the exact statistics; a p-value is exact where the     *)
(* special function is, and otherwise the value handed in for it.          *)
(***************************************************************************)
\* f"{num:06b}": six binary digits, most significant first (num < 64).
Bits06_lsb(num) == [k \in 1..6 |-> (num \div (2 ^ (k - 1))) % 2]

Bits06(num) == [k \in 1..6 |-> (num \div (2 ^ (6 - k))) % 2]

PresenceBits(draw) ==
    [number \in 1..TOTAL_BALLS |->
        IF number \in SeqToSet(draw.numbers) THEN 1 ELSE 0]

ParityBits(draw) ==
    [i \in DOMAIN draw.numbers |-> IF draw.numbers[i] % 2 # 0 THEN 1 ELSE 0]

BinaryBits(draw) == Concat([i \in DOMAIN draw.numbers |-> Bits06(draw.numbers[i])])

_bit_sequence_from_draws(ds, encoding) ==
    IF encoding \notin VALID_BIT_ENCODINGS THEN Raise("InvalidEncoding")
    ELSE IF encoding = "presence"
         THEN Ok(Concat([i \in DOMAIN ds |-> PresenceBits(ds[i])]))
    ELSE IF encoding = "parity"
         THEN Ok(Concat([i \in DOMAIN ds |-> ParityBits(ds[i])]))
    ELSE IF encoding = "binary"
         THEN Ok(Concat([i \in DOMAIN ds |-> BinaryBits(ds[i])]))
    ELSE Ok(<<>>)

\* p-values are carried as rationals <<numerator, denominator>>; NaN, the
\* value gammaincc gives outside its domain, has denominator 0 and compares
\* false with everything.
RANDOMNESS_ALPHA == <<1, 100>>

NaN == <<0, 0>>

\* p >= q on floats.
AtLeast(p, q) == p[2] # 0 /\ q[2] # 0 /\ p[1] * q[2] >= q[1] * p[2]

\* min(p, q) of Python: q if q < p, else p.
MinOf(p, q) == IF p[2] # 0 /\ q[2] # 0 /\ q[1] * p[2] < p[1] * q[2] THEN q ELSE p

\* erfc, gammaincc and the normal-cdf sums are exact at the arguments below;
\* elsewhere `value` stands for the number in [0, 1] the library returns.
erfc(argument_is_zero, value) == IF argument_is_zero THEN <<1, 1>> ELSE value

gammaincc(x, value) ==
    IF x[1] < 0 THEN NaN ELSE IF x[1] = 0 THEN <<1, 1>> ELSE value

\* gammaincc of delta2 = psi_m - 2 * psi_m1 + psi_m2.  The psi-squared values
\* are rounded floats, so a delta2 that is exactly 0 can come out just below
\* 0 (NaN), 0 or just above 0 (1.0 or nearly); `value` below the threshold
\* stands for the first outcome.  (delta1 = psi_m - psi_m1 has no such
\* case: when it is exactly 0 the two floats are the same number.)
gammaincc_of_difference(x, value) ==
    IF x[1] = 0
    THEN IF AtLeast(value, RANDOMNESS_ALPHA) THEN <<1, 1>> ELSE NaN
    ELSE gammaincc(x, value)

\* s_obs = abs_sum / sqrt(n).
_frequency_monobit_test_counting(bits, p) ==
    LET n == Len(bits) IN
    IF n < 100 THEN Raise("InsufficientBits")
    ELSE LET abs_sum == Abs(SumSeq([i \in DOMAIN bits |-> IF bits[i] # 0 THEN 1 ELSE 0]))
             p_value == erfc(abs_sum = 0, p)
         IN  Ok([name |-> "monobit_frequency",
                 statistic |-> Some([abs_sum |-> abs_sum, n |-> n]),
                 p_value |-> p_value,
                 passed |-> AtLeast(p_value, RANDOMNESS_ALPHA),
                 detail |-> [n |-> n]])

_frequency_monobit_test(bits, p) ==
    LET n == Len(bits) IN
    IF n < 100 THEN Raise("InsufficientBits")
    ELSE LET abs_sum == Abs(SumSeq([i \in DOMAIN bits |-> IF bits[i] # 0 THEN 1 ELSE -1]))
             p_value == erfc(abs_sum = 0, p)
         IN  Ok([name |-> "monobit_frequency",
                 statistic |-> Some([abs_sum |-> abs_sum, n |-> n]),
                 p_value |-> p_value,
                 passed |-> AtLeast(p_value, RANDOMNESS_ALPHA),
                 detail |-> [n |-> n]])

OnesInBlock(bits, block_index, block_size) ==
    SumSeq([i \in 1..block_size |-> bits[block_index * block_size + i]])

\* chi_square = 4 * m * sum((ones/m - 1/2)^2) = sum((2*ones - m)^2) / m.
_block_frequency_test_exceeding(bits, block_size, p) ==
    LET n == Len(bits) IN
    IF block_size <= 0 THEN Raise("InvalidBlockSize")
    ELSE LET num_blocks == n \div block_size IN
         IF n <= block_size THEN Raise("BlockSizeExceedsLength")
         ELSE LET chi_square ==
                      RatNorm(<<SumSeq([b \in 1..num_blocks |->
                                (2 * OnesInBlock(bits, b - 1, block_size) - block_size)
                                * (2 * OnesInBlock(bits, b - 1, block_size) - block_size)]),
                             block_size>>)
                  p_value == gammaincc(chi_square, p)
              IN  Ok([name |-> "block_frequency",
                      statistic |-> Some(chi_square),
                      p_value |-> p_value,
                      passed |-> AtLeast(p_value, RANDOMNESS_ALPHA),
                      detail |-> [num_blocks |-> num_blocks, block_size |-> block_size]])

_block_frequency_test(bits, block_size, p) ==
    LET n == Len(bits) IN
    IF block_size <= 0 THEN Raise("InvalidBlockSize")
    ELSE LET num_blocks == n \div block_size IN
         IF num_blocks = 0 THEN Raise("BlockSizeExceedsLength")
         ELSE LET chi_square ==
                      RatNorm(<<SumSeq([b \in 1..num_blocks |->
                                (2 * OnesInBlock(bits, b - 1, block_size) - block_size)
                                * (2 * OnesInBlock(bits, b - 1, block_size) - block_size)]),
                             block_size>>)
                  p_value == gammaincc(chi_square, p)
              IN  Ok([name |-> "block_frequency",
                      statistic |-> Some(chi_square),
                      p_value |-> p_value,
                      passed |-> AtLeast(p_value, RANDOMNESS_ALPHA),
                      detail |-> [num_blocks |-> num_blocks, block_size |-> block_size]])

\* abs(pi - 0.5) >= 2 / sqrt(n) with pi = ones / n, squared and cleared of
\* denominators: (2*ones - n)^2 >= 16*n.  The source compares IEEE doubles:
\* away from equality the rounded comparison agrees with the exact one, and
\* at equality (n a perfect square, |2*ones - n| = 4*sqrt(n)) it is decided
\* by the rounding of ones / n - 0.5.  RoundedBelowTau lists the <<n, ones>>
\* at equality, for n up to 2000, where the double abs(pi - 0.5) comes out
\* below the double 2 / sqrt(n), e.g. 0.7 - 0.5 = 0.19999999999999996.
ExceedsTau(n, ones) ==
    LET RoundedBelowTau ==
            { <<100, 70>>, <<144, 96>>, <<400, 160>>, <<400, 240>>, <<484, 198>>,
              <<576, 240>>, <<676, 390>>, <<784, 448>>, <<900, 390>>, <<900, 510>>,
              <<1600, 720>>, <<1936, 1056>> }
    IN  /\ (2 * ones - n) * (2 * ones - n) >= 16 * n
        /\ <<n, ones>> \notin RoundedBelowTau

_runs_test(bits, p) ==
    LET n == Len(bits)
        ones == SumSeq(bits)
    IN  IF n < 100 THEN Raise("InsufficientBits")
        ELSE IF ExceedsTau(n, ones)
        THEN Ok([name |-> "runs",
                 statistic |-> None,
                 p_value |-> <<0, 1>>,
                 passed |-> FALSE,
                 detail |-> [pi |-> <<ones, n>>, immediate_fail |-> TRUE]])
        ELSE LET Vn == RunsCount(bits)
                 \* numerator = abs(Vn - 2 * n * pi * (1 - pi))
                 p_value == erfc(Vn * n = 2 * ones * (n - ones), p)
             IN  Ok([name |-> "runs",
                     statistic |-> Some(Vn),
                     p_value |-> p_value,
                     passed |-> AtLeast(p_value, RANDOMNESS_ALPHA),
                     detail |-> [pi |-> <<ones, n>>, immediate_fail |-> FALSE]])

\* The value of the k-bit window that starts at position i of the cyclically
\* extended sequence (extended = bits + bits[:m-1]), first bit most significant.
RECURSIVE WindowValue(_, _, _)
WindowValue(bits, i, k) ==
    IF k = 0 THEN 0
    ELSE 2 * WindowValue(bits, i, k - 1) + bits[((i + k - 2) % Len(bits)) + 1]

\* sum(count ** 2 for count in frequency.values()) over the windows seen.
Square(x) == x * x

SumSquaredCounts(blocks, m) ==
    SumSeq([j \in 1..(2 ^ m) |->
               Square(Cardinality({i \in DOMAIN blocks : blocks[i] = j - 1}))])

_psi2_unwrapped(bits, m) ==
    LET n == Len(bits) IN
    IF m = 0 \/ n = 0 THEN <<0, 1>>
    ELSE LET total == SumSquaredCounts([i \in 1..(n - m + 1) |-> WindowValue(bits, i, m)], m)
         IN  RatNorm(<<total * (2 ^ m) - n * n, n>>)

_psi2(bits, m) ==
    LET n == Len(bits) IN
    IF m = 0 \/ n = 0 THEN <<0, 1>>
    ELSE LET total == SumSquaredCounts([i \in 1..n |-> WindowValue(bits, i, m)], m)
         IN  RatNorm(<<total * (2 ^ m) - n * n, n>>)

RatSub(a, b) == RatAdd(a, <<-b[1], b[2]>>)

_serial_test_first(bits, m, p1, p2) ==
    IF m < 2 THEN Raise("InvalidSerialBlock")
    ELSE IF Len(bits) < m THEN Raise("SequenceTooShort")
    ELSE LET psi_m == _psi2(bits, m)
             psi_m1 == _psi2(bits, m - 1)
             psi_m2 == _psi2(bits, m - 2)
             delta1 == RatSub(psi_m, psi_m1)
             delta2 == RatAdd(RatSub(psi_m, RatMul(<<2, 1>>, psi_m1)), psi_m2)
             p_value1 == gammaincc(delta1, p1)
             p_value2 == gammaincc_of_difference(delta2, p2)
         IN  Ok([name |-> "serial_m" \o ToString(m),
                 statistic |-> Some(delta1),
                 p_value |-> p_value1,
                 passed |-> AtLeast(p_value1, RANDOMNESS_ALPHA),
                 detail |-> [p_value2 |-> p_value2, delta2 |-> delta2]])

_serial_test(bits, m, p1, p2) ==
    IF m < 2 THEN Raise("InvalidSerialBlock")
    ELSE IF Len(bits) < m THEN Raise("SequenceTooShort")
    ELSE LET psi_m == _psi2(bits, m)
             psi_m1 == _psi2(bits, m - 1)
             psi_m2 == _psi2(bits, m - 2)
             delta1 == RatSub(psi_m, psi_m1)
             delta2 == RatAdd(RatSub(psi_m, RatMul(<<2, 1>>, psi_m1)), psi_m2)
             p_value1 == gammaincc(delta1, p1)
             p_value2 == gammaincc_of_difference(delta2, p2)
         IN  Ok([name |-> "serial_m" \o ToString(m),
                 statistic |-> Some(delta1),
                 p_value |-> p_value1,
                 passed |-> AtLeast(p_value1, RANDOMNESS_ALPHA)
                                /\ AtLeast(p_value2, RANDOMNESS_ALPHA),
                 detail |-> [p_value2 |-> p_value2, delta2 |-> delta2]])

\* itertools.accumulate: the running sums of s[lo..hi] and their total,
\* splitting the range in halves.
RECURSIVE AccumulateRange(_, _, _)
AccumulateRange(s, lo, hi) ==
    IF lo > hi THEN [sums |-> <<>>, total |-> 0]
    ELSE IF lo = hi THEN [sums |-> <<s[lo]>>, total |-> s[lo]]
    ELSE LET mid == (lo + hi) \div 2
             left == AccumulateRange(s, lo, mid)
             right == AccumulateRange(s, mid + 1, hi)
         IN  [sums |-> left.sums
                           \o [i \in DOMAIN right.sums |-> left.total + right.sums[i]],
              total |-> left.total + right.total]

Accumulate(s) == AccumulateRange(s, 1, Len(s)).sums

Reversed(s) == [i \in DOMAIN s |-> s[Len(s) + 1 - i]]

\* max(abs(value) for value in s), s non-empty.
RECURSIVE MaxAbsRange(_, _, _)
MaxAbsRange(s, lo, hi) ==
    IF lo = hi THEN Abs(s[lo])
    ELSE LET mid == (lo + hi) \div 2
             left == MaxAbsRange(s, lo, mid)
             right == MaxAbsRange(s, mid + 1, hi)
         IN  IF left >= right THEN left ELSE right

MaxAbs(s) == MaxAbsRange(s, 1, Len(s))

\* int(a / b) for b > 0: truncation toward zero.
IntTrunc(a, b) == IF a >= 0 THEN a \div b ELSE -((-a) \div b)

\* The p-value with the summation bounds of the two sums it was computed
\* from; the p-value is the constant 1.0 for an empty sequence or z = 0 and
\* otherwise `p`, the value of 1.0 - sum1 + sum2.
_cumulative_sums_p_value(partial_sums, p) ==
    LET n == Len(partial_sums) IN
    IF n = 0 THEN [trivial |-> TRUE, z |-> 0, p_value |-> <<1, 1>>]
    ELSE LET z == MaxAbs(partial_sums) IN
         IF z = 0 THEN [trivial |-> TRUE, z |-> 0, p_value |-> <<1, 1>>]
         ELSE [trivial |-> FALSE,
               z |-> z,
               p_value |-> p,
               start_k1 |-> IntTrunc(z - n, 4 * z),
               end_k1 |-> IntTrunc(n - z, 4 * z),
               start_k2 |-> IntTrunc(-n - 3 * z, 4 * z),
               end_k2 |-> IntTrunc(n - z, 4 * z)]

_cumulative_sums_test_unmapped(bits, pf, pb) ==
    LET n == Len(bits) IN
    IF n < 100 THEN Raise("InsufficientBits")
    ELSE LET adjusted == [i \in DOMAIN bits |-> IF bits[i] # 0 THEN 1 ELSE 0]
             forward_sums == Accumulate(adjusted)
             backward_sums == Accumulate(Reversed(adjusted))
             p_forward == _cumulative_sums_p_value(forward_sums, pf)
             p_backward == _cumulative_sums_p_value(backward_sums, pb)
         IN  Ok([name |-> "cumulative_sums",
                 statistic |-> Some(MaxAbs(forward_sums)),
                 p_value |-> MinOf(p_forward.p_value, p_backward.p_value),
                 passed |-> AtLeast(p_forward.p_value, RANDOMNESS_ALPHA)
                                /\ AtLeast(p_backward.p_value, RANDOMNESS_ALPHA),
                 detail |-> [p_value_forward |-> p_forward,
                             p_value_backward |-> p_backward]])

_cumulative_sums_test(bits, pf, pb) ==
    LET n == Len(bits) IN
    IF n < 100 THEN Raise("InsufficientBits")
    ELSE LET adjusted == [i \in DOMAIN bits |-> IF bits[i] # 0 THEN 1 ELSE -1]
             forward_sums == Accumulate(adjusted)
             backward_sums == Accumulate(Reversed(adjusted))
             p_forward == _cumulative_sums_p_value(forward_sums, pf)
             p_backward == _cumulative_sums_p_value(backward_sums, pb)
         IN  Ok([name |-> "cumulative_sums",
                 statistic |-> Some(MaxAbs(forward_sums)),
                 p_value |-> MinOf(p_forward.p_value, p_backward.p_value),
                 passed |-> AtLeast(p_forward.p_value, RANDOMNESS_ALPHA)
                                /\ AtLeast(p_backward.p_value, RANDOMNESS_ALPHA),
                 detail |-> [p_value_forward |-> p_forward,
                             p_value_backward |-> p_backward]])

\* The list literal of randomness_test_suite evaluates the five tests in
\* order; the first one that raises ends the call.  `tests` are the records
\* built so far, `ran` the tests that were entered, `pv` the values the
\* special functions return to the five tests.
SuiteTest(k, bits, block_size, serial_block, pv) ==
    CASE k = 1 -> _frequency_monobit_test(bits, pv.monobit)
      [] k = 2 -> _block_frequency_test(bits, block_size, pv.block)
      [] k = 3 -> _runs_test(bits, pv.runs)
      [] k = 4 -> _serial_test(bits, serial_block, pv.serial1, pv.serial2)
      [] k = 5 -> _cumulative_sums_test(bits, pv.forward, pv.backward)

SuiteTestNames ==
    <<"monobit_frequency", "block_frequency", "runs", "serial", "cumulative_sums">>

RECURSIVE SuiteFrom(_, _, _, _, _, _)
SuiteFrom(k, bits, block_size, serial_block, pv, done) ==
    IF k > 5 THEN [outcome |-> "ok", tests |-> done, ran |-> SuiteTestNames]
    ELSE LET r == SuiteTest(k, bits, block_size, serial_block, pv)
         IN  IF r.outcome # "ok"
             THEN [outcome |-> r.outcome, tests |-> <<>>,
                   ran |-> SubSeq(SuiteTestNames, 1, k)]
             ELSE SuiteFrom(k + 1, bits, block_size, serial_block, pv,
                            Append(done, r.value))

randomness_test_suite_truncated(bits, block_size, serial_block, pv) ==
    LET suite == SuiteFrom(1, bits, block_size, serial_block, pv, <<>>)
    IN  IF suite.outcome # "ok" THEN suite
        ELSE [suite EXCEPT !.tests = SubSeq(suite.tests, 1, 4),
                           !.ran = SubSeq(suite.ran, 1, 4)]

randomness_test_suite(bits, block_size, serial_block, pv) ==
    SuiteFrom(1, bits, block_size, serial_block, pv, <<>>)

SuiteFailure(e, tests_ran) == [outcome |-> e, value |-> NoResult, ran |-> tests_ran]

randomness_suite_summary_unchecked(ds, encoding, block_size, serial_block, pv) ==
    IF Len(ds) = 0 THEN SuiteFailure("NoData", <<>>)
    ELSE LET derived == _bit_sequence_from_draws(ds, encoding) IN
         IF derived.outcome # "ok" THEN SuiteFailure(derived.outcome, <<>>)
         ELSE LET bits == derived.value
                  suite == randomness_test_suite(bits, block_size, serial_block, pv)
              IN  IF suite.outcome # "ok" THEN SuiteFailure(suite.outcome, suite.ran)
                  ELSE [outcome |-> "ok",
                        value |-> [kind |-> "randomness",
                                   encoding |-> encoding,
                                   total_bits |-> Len(bits),
                                   tests |-> suite.tests],
                        ran |-> suite.ran]

randomness_suite_summary(ds, encoding, block_size, serial_block, pv) ==
    IF Len(ds) = 0 THEN SuiteFailure("NoData", <<>>)
    ELSE LET derived == _bit_sequence_from_draws(ds, encoding) IN
         IF derived.outcome # "ok" THEN SuiteFailure(derived.outcome, <<>>)
         ELSE LET bits == derived.value IN
              IF Len(bits) < MinSuiteBits THEN SuiteFailure("InsufficientBits", <<>>)
              ELSE LET suite == randomness_test_suite(bits, block_size, serial_block, pv)
                   IN  IF suite.outcome # "ok"
                       THEN SuiteFailure(suite.outcome, suite.ran)
                       ELSE [outcome |-> "ok",
                             value |-> [kind |-> "randomness",
                                        encoding |-> encoding,
                                        total_bits |-> Len(bits),
                                        tests |-> suite.tests],
                             ran |-> suite.ran]

\* POST /randomness: FastAPI validates the query (block_size ge=8 le=1024,
\* serial_block ge=2 le=4) before the route body runs; the body calls
\* randomness_suite_summary and answers a ValueError with status 400 that
\* carries its message.  (Storing the snapshot of a successful run is left
\* out: it does not change the response.)
postLottoRandomnessSuite(ds, encoding, block_size, serial_block, pv) ==
    IF ~(block_size >= 8 /\ block_size <= 1024 /\ serial_block >= 2 /\ serial_block <= 4)
    THEN SuiteFailure("RequestValidationError", <<>>)
    ELSE randomness_suite_summary(ds, encoding, block_size, serial_block, pv)

(***************************************************************************)
(* Draw storage (src/app/services/lotto.py, and the file-only variant in   *)
(* src/lottery.py).  `store` is the list of records in the draw file, or   *)
(* the rows of the draw table in primary-key order; an absent file and an  *)
(* empty one both load as the empty history.                               *)
(***************************************************************************)
\* sorted(draws, key=lambda d: d.draw_no): ascending and stable.
SortedByDrawNo(ds) ==
    LET Before(i, j) ==
            \/ ds[i].draw_no < ds[j].draw_no
            \/ ds[i].draw_no = ds[j].draw_no /\ i < j
        Rank(i) == Cardinality({j \in DOMAIN ds : Before(j, i)})
    IN  [k \in DOMAIN ds |-> ds[CHOOSE i \in DOMAIN ds : Rank(i) = k - 1]]

\* dedup[draw.draw_no] = draw over the sorted list: one record per draw_no,
\* the last one given, in ascending order of draw_no.
_deduplicate_draws_keeping(ds) ==
    SortedByDrawNo(ds)

_deduplicate_draws(ds) ==
    LET sorted == SortedByDrawNo(ds)
        last == {i \in DOMAIN sorted :
                    \A j \in DOMAIN sorted : j > i => sorted[j].draw_no # sorted[i].draw_no}
        order == AscendingSeq(last)
    IN  [k \in DOMAIN order |-> sorted[order[k]]]

\* Both backends return the records ordered by draw_no (sorted(...) for the
\* file, ORDER BY draw_no ASC for the table).
load_stored_draws(store) == SortedByDrawNo(store)

\* The file is replaced by the deduplicated list.
_save_draws_to_file(ds) == _deduplicate_draws(ds)

\* Each deduplicated draw updates the row with its draw_no or adds one.
_save_draws_to_db(store, ds) ==
    LET dedup == _deduplicate_draws(ds)
        kept == SelectSeq(store,
                          LAMBDA row : \A i \in DOMAIN dedup : dedup[i].draw_no # row.draw_no)
    IN  SortedByDrawNo(kept \o dedup)

\* The outcome of a storage call and the store it leaves.  A write that
\* fails (the temporary file cannot be written, the transaction is rolled
\* back) leaves the store as it was.
Stored(r, store) == [outcome |-> r.outcome, value |-> r.value, storage |-> store]

save_draws(store, use_db, ds, write_fails) ==
    IF Len(ds) = 0 THEN Stored(Ok([kind |-> "saved"]), store)
    ELSE IF write_fails THEN Stored(Raise("StorageError"), store)
    ELSE Stored(Ok([kind |-> "saved"]),
                IF use_db THEN _save_draws_to_db(store, ds) ELSE _save_draws_to_file(ds))

\* What the remote site answers for a draw number.
RemoteContent == [numbers |-> <<45, 3, 17, 22, 40, 8>>, bonus |-> 3]

fetch_draw_info(draw_no) == LottoDraw(draw_no, RemoteContent)

\* latest_no is the newest draw number of the remote site and `failing` the
\* draw number whose fetch fails (0: none).  The latest draw is fetched
\* first, then the missing ones in ascending order, then everything is
\* saved in one call.
sync_draw_storage_eager(store, use_db, latest_no, failing, write_fails) ==
    LET stored == load_stored_draws(store)
        previous_max == IF Len(stored) = 0 THEN 0 ELSE stored[Len(stored)].draw_no
    IN  IF failing = latest_no THEN Stored(Raise("FetchError"), store)
        ELSE IF latest_no <= previous_max
        THEN Stored(Ok([kind |-> "sync", previous_max |-> previous_max,
                        latest |-> latest_no, inserted |-> 0, draws |-> <<>>]), store)
        ELSE IF failing \in (previous_max + 1)..(latest_no - 1)
        THEN Stored(Raise("FetchError"),
                    save_draws(store, use_db,
                               stored \o [k \in 1..(failing - 1 - previous_max) |->
                                             fetch_draw_info(previous_max + k)],
                               FALSE).storage)
        ELSE LET missing_draws == [k \in 1..(latest_no - previous_max) |->
                                      fetch_draw_info(previous_max + k)]
                 saved == IF use_db
                          THEN save_draws(store, use_db, missing_draws, write_fails)
                          ELSE save_draws(store, use_db, stored \o missing_draws, write_fails)
             IN  IF saved.outcome # "ok" THEN saved
                 ELSE Stored(Ok([kind |-> "sync", previous_max |-> previous_max,
                                 latest |-> latest_no, inserted |-> Len(missing_draws),
                                 draws |-> missing_draws]), saved.storage)

sync_draw_storage(store, use_db, latest_no, failing, write_fails) ==
    LET stored == load_stored_draws(store)
        previous_max == IF Len(stored) = 0 THEN 0 ELSE stored[Len(stored)].draw_no
    IN  IF failing = latest_no THEN Stored(Raise("FetchError"), store)
        ELSE IF latest_no <= previous_max
        THEN Stored(Ok([kind |-> "sync", previous_max |-> previous_max,
                        latest |-> latest_no, inserted |-> 0, draws |-> <<>>]), store)
        ELSE IF failing \in (previous_max + 1)..(latest_no - 1)
        THEN Stored(Raise("FetchError"), store)
        ELSE LET missing_draws == [k \in 1..(latest_no - previous_max) |->
                                      fetch_draw_info(previous_max + k)]
                 saved == IF use_db
                          THEN save_draws(store, use_db, missing_draws, write_fails)
                          ELSE save_draws(store, use_db, stored \o missing_draws, write_fails)
             IN  IF saved.outcome # "ok" THEN saved
                 ELSE Stored(Ok([kind |-> "sync", previous_max |-> previous_max,
                                 latest |-> latest_no, inserted |-> Len(missing_draws),
                                 draws |-> missing_draws]), saved.storage)

(***************************************************************************)
(* Calls.                                                                  *)
(***************************************************************************)
Init ==
    /\ draws \in ShortHistories
    /\ stream = <<>>
    /\ storage = <<>>
    /\ use_database_storage = FALSE
    /\ op = "idle"
    /\ args = NoArgs
    /\ outcome = "none"
    /\ result = NoResult
    /\ ran = <<>>

Finish_sorting(name, a, r, tests) ==
    /\ op = "idle"
    /\ op' = name
    /\ args' = a
    /\ outcome' = r.outcome
    /\ result' = r.value
    /\ ran' = tests
    /\ draws' = [i \in DOMAIN draws |->
                    [draws[i] EXCEPT !.numbers = SortedValues(draws[i].numbers)]]
    /\ UNCHANGED <<stream, storage, use_database_storage>>

Finish(name, a, r, tests) ==
    /\ op = "idle"
    /\ op' = name
    /\ args' = a
    /\ outcome' = r.outcome
    /\ result' = r.value
    /\ ran' = tests
    /\ UNCHANGED <<draws, stream, storage, use_database_storage>>

CallNumberFrequencies ==
    Finish("calculate_number_frequencies", NoArgs,
           Ok([kind |-> "frequencies", items |-> calculate_number_frequencies(draws)]),
           <<>>)

CallGapHistogram ==
    Finish("gap_histogram", NoArgs,
           Ok([kind |-> "gap_histogram", items |-> gap_histogram(draws)]), <<>>)

CallRunsTestEvenOdd ==
    Finish("runs_test_even_odd", NoArgs, runs_test_even_odd(draws), <<>>)

CallRunsTestOnSums ==
    Finish("runs_test_on_sums", NoArgs, runs_test_on_sums(draws), <<>>)

CallChiSquareUniformity ==
    Finish("chi_square_uniformity_test", NoArgs, chi_square_uniformity_test(draws), <<>>)

CallParityPattern ==
    Finish("parity_pattern_analysis", NoArgs, parity_pattern_analysis(draws), <<>>)

CallLowHighPattern ==
    Finish("low_high_pattern_analysis", NoArgs, low_high_pattern_analysis(draws), <<>>)

CallLastDigit ==
    Finish("last_digit_analysis", NoArgs, last_digit_analysis(draws), <<>>)

CallNumberAutocorrelation ==
    \E max_lag \in (-1)..MaxLag :
        Finish("number_autocorrelation", [NoArgs EXCEPT !.max_lag = max_lag],
               number_autocorrelation(draws, max_lag), <<>>)

CallCarryOver ==
    Finish("carry_over_analysis", NoArgs, carry_over_analysis(draws), <<>>)

CallSummarizeDraws ==
    LET r == summarize_draws(draws)
    IN  Finish("summarize_draws", NoArgs, r, r.ran)

CallDependencySummary ==
    \E max_lag \in 1..MaxLag :
        LET r == dependency_summary(draws, max_lag)
        IN  Finish("dependency_summary", [NoArgs EXCEPT !.max_lag = max_lag], r, r.ran)

\* What rng.sample can return: six distinct numbers in any order.
ReferencePool == {d.numbers : d \in DrawPool}

RngSamples(sample_size) == [1..sample_size -> ReferencePool]

\* References a caller supplies instead of the simulation: an empty one, one
\* whose sample list is empty while its histogram is not, and one taken from
\* a simulation.
SuppliedReferences(kind) ==
    LET reference == _simulate_reference_draws(<< <<1, 2, 3, 4, 5, 6>>, <<45, 3, 17, 22, 40, 8>> >>)
    IN  { [samples |-> <<>>, hist |-> <<>>],
          [samples |-> <<>>, hist |-> << <<21, 1>> >>],
          IF kind = "sum"
          THEN [samples |-> reference.sum_samples, hist |-> reference.sum_hist]
          ELSE [samples |-> reference.gap_samples, hist |-> reference.gap_hist] }

DistributionArgs(kind) ==
    { [NoArgs EXCEPT !.sample_size = Len(rng), !.rng = rng] :
          rng \in UNION {RngSamples(sample_size) : sample_size \in 0..MaxSample} }
        \cup { [NoArgs EXCEPT !.sample_size = 100000, !.simulated = Some(simulated)] :
                   simulated \in SuppliedReferences(kind) }

CallSumDistribution ==
    \E a \in DistributionArgs("sum") :
        LET r == sum_distribution_analysis(draws, a.rng, a.simulated)
        IN  Finish("sum_distribution_analysis", a, r, r.ran)

CallGapDistribution ==
    \E a \in DistributionArgs("gap") :
        LET r == gap_distribution_analysis(draws, a.rng, a.simulated)
        IN  Finish("gap_distribution_analysis", a, r, r.ran)

\* Arguments of the randomness calls: the three encodings and one the
\* engine does not know; block sizes and serial block lengths around the
\* limits the HTTP layer enforces (src/app/api/routes_analysis.py:319-334).
Encodings == VALID_BIT_ENCODINGS \cup {"gray"}

BlockSizes == {8, 128}

SerialBlocks == 1..4

CallBitSequence ==
    \E encoding \in Encodings :
        LET r == _bit_sequence_from_draws(draws, encoding)
        IN  Finish("_bit_sequence_from_draws", [NoArgs EXCEPT !.encoding = encoding],
                   IF r.outcome = "ok" THEN Ok([kind |-> "bits", bits |-> r.value]) ELSE r,
                   <<>>)

\* What the special functions may return: values on both sides of the
\* threshold 0.01 and the ends of [0, 1].
PValues == {<<0, 1>>, <<9, 1000>>, <<1, 100>>, <<11, 1000>>, <<1, 1>>}

\* For a whole suite: every value above the threshold, or the values of the
\* first of two paired computations above and the others below.
SuitePValues ==
    { [monobit |-> <<1, 2>>, block |-> <<1, 2>>, runs |-> <<1, 2>>,
       serial1 |-> <<1, 2>>, serial2 |-> <<1, 2>>,
       forward |-> <<1, 2>>, backward |-> <<1, 2>>],
      [monobit |-> <<9, 1000>>, block |-> <<1, 100>>, runs |-> <<9, 1000>>,
       serial1 |-> <<11, 1000>>, serial2 |-> <<9, 1000>>,
       forward |-> <<1, 100>>, backward |-> <<0, 1>>] }

CallRandomnessSuiteSummary ==
    \E encoding \in Encodings, block_size \in BlockSizes, serial_block \in SerialBlocks,
       pv \in SuitePValues :
        LET r == randomness_suite_summary(draws, encoding, block_size, serial_block, pv)
        IN  Finish("randomness_suite_summary",
                   [NoArgs EXCEPT !.encoding = encoding, !.block_size = block_size,
                                  !.serial_block = serial_block],
                   r, r.ran)

\* Requests to the route, with query values on both sides of its limits.
CallPostRandomnessSuite ==
    \E block_size \in {4, 8}, serial_block \in {1, 4, 5}, pv \in SuitePValues :
        LET r == postLottoRandomnessSuite(draws, "presence", block_size, serial_block, pv)
        IN  Finish("postLottoRandomnessSuite",
                   [NoArgs EXCEPT !.encoding = "presence", !.block_size = block_size,
                                  !.serial_block = serial_block],
                   r, r.ran)

\* The five tests called directly on a bit sequence.
CallMonobitTest ==
    \E p \in PValues :
        Finish("_frequency_monobit_test", NoArgs, _frequency_monobit_test(stream, p), <<>>)

\* Block sizes for the test called directly: invalid, dividing the stream
\* into several blocks, equal to the minimum stream length, and too large.
CallBlockFrequencyTest ==
    \E block_size \in BlockSizes \cup {0, 100}, p \in PValues :
        Finish("_block_frequency_test", [NoArgs EXCEPT !.block_size = block_size],
               _block_frequency_test(stream, block_size, p), <<>>)

CallRunsTest ==
    \E p \in PValues :
        Finish("_runs_test", NoArgs, _runs_test(stream, p), <<>>)

\* Block lengths for the serial test called directly: below, inside and
\* above the range 2..4 the HTTP query accepts.
CallSerialTest ==
    \E m \in SerialBlocks \cup {0, 5}, p1 \in PValues, p2 \in PValues :
        Finish("_serial_test", [NoArgs EXCEPT !.serial_block = m],
               _serial_test(stream, m, p1, p2), <<>>)

CallCumulativeSumsTest ==
    \E pf \in PValues, pb \in PValues :
        Finish("_cumulative_sums_test", NoArgs, _cumulative_sums_test(stream, pf, pb), <<>>)

\* The caller takes the result (or the error) and the engine is idle again.
Return ==
    /\ op # "idle"
    /\ op' = "idle"
    /\ args' = NoArgs
    /\ outcome' = "none"
    /\ result' = NoResult
    /\ ran' = <<>>
    /\ UNCHANGED <<draws, stream, storage, use_database_storage>>

Next ==
    \/ CallNumberFrequencies
    \/ CallRunsTestEvenOdd
    \/ CallRunsTestOnSums
    \/ CallChiSquareUniformity
    \/ CallParityPattern
    \/ CallLowHighPattern
    \/ CallLastDigit
    \/ CallNumberAutocorrelation
    \/ CallCarryOver
    \/ CallGapHistogram
    \/ CallSumDistribution
    \/ CallGapDistribution
    \/ CallSummarizeDraws
    \/ CallDependencySummary
    \/ CallBitSequence
    \/ Return

Spec == Init /\ [][Next]_vars

\* The randomness suite, over histories long enough to yield 100 bits under
\* every encoding.
SuiteInit ==
    /\ draws \in SuiteHistories
    /\ stream = <<>>
    /\ storage = <<>>
    /\ use_database_storage = FALSE
    /\ op = "idle"
    /\ args = NoArgs
    /\ outcome = "none"
    /\ result = NoResult
    /\ ran = <<>>

SuiteNext ==
    \/ CallBitSequence
    \/ CallRandomnessSuiteSummary
    \/ CallPostRandomnessSuite
    \/ Return

SuiteSpec == SuiteInit /\ [][SuiteNext]_vars

\* The documented scenarios: long histories of one repeated draw and
\* perfectly balanced histories, next to the short ones.
ScenarioInit ==
    /\ draws \in ShortHistories \cup ScenarioHistories
    /\ stream = <<>>
    /\ storage = <<>>
    /\ use_database_storage = FALSE
    /\ op = "idle"
    /\ args = NoArgs
    /\ outcome = "none"
    /\ result = NoResult
    /\ ran = <<>>

ScenarioNext ==
    \/ CallNumberFrequencies
    \/ CallChiSquareUniformity
    \/ CallGapHistogram
    \/ Return

ScenarioSpec == ScenarioInit /\ [][ScenarioNext]_vars

\* The randomness tests on bit sequences given directly.
BitInit ==
    /\ draws = <<>>
    /\ stream \in BitInputs
    /\ storage = <<>>
    /\ use_database_storage = FALSE
    /\ op = "idle"
    /\ args = NoArgs
    /\ outcome = "none"
    /\ result = NoResult
    /\ ran = <<>>

BitNext ==
    \/ CallMonobitTest
    \/ CallBlockFrequencyTest
    \/ CallRunsTest
    \/ CallSerialTest
    \/ CallCumulativeSumsTest
    \/ Return

BitSpec == BitInit /\ [][BitNext]_vars

\* Storage calls.  Draws handed to save_draws carry a draw number up to
\* MaxDrawNo and one of two contents, so that a number can be saved again
\* with other content.
SaveInputs ==
    LET SavedContents == { [numbers |-> <<1, 2, 3, 4, 5, 6>>, bonus |-> 7], RemoteContent }
        SavedDraws == { LottoDraw(no, d) : no \in 1..MaxDrawNo, d \in SavedContents }
    IN  UNION { [1..n -> SavedDraws] : n \in 0..MaxSaved }

StorageInit ==
    /\ draws = <<>>
    /\ stream = <<>>
    /\ storage = <<>>
    /\ use_database_storage \in BOOLEAN
    /\ op = "idle"
    /\ args = NoArgs
    /\ outcome = "none"
    /\ result = NoResult
    /\ ran = <<>>

StorageFinish(name, a, r) ==
    /\ op = "idle"
    /\ op' = name
    /\ args' = a
    /\ outcome' = r.outcome
    /\ result' = r.value
    /\ ran' = <<>>
    /\ storage' = r.storage
    /\ UNCHANGED <<draws, stream, use_database_storage>>

CallSaveDraws ==
    \E ds \in SaveInputs, write_fails \in BOOLEAN :
        StorageFinish("save_draws",
                      [NoArgs EXCEPT !.saved = ds, !.write_fails = write_fails],
                      save_draws(storage, use_database_storage, ds, write_fails))

CallSyncDrawStorage ==
    \E latest_no \in 1..MaxDrawNo, failing \in 0..MaxDrawNo, write_fails \in BOOLEAN :
        StorageFinish("sync_draw_storage",
                      [NoArgs EXCEPT !.latest_no = latest_no, !.failing = failing,
                                     !.write_fails = write_fails],
                      sync_draw_storage(storage, use_database_storage, latest_no, failing,
                                        write_fails))

\* The history is loaded and handed to the analysis engine.
CallLoadStoredDraws ==
    /\ op = "idle"
    /\ op' = "load_stored_draws"
    /\ args' = NoArgs
    /\ outcome' = "ok"
    /\ result' = [kind |-> "history", draws |-> load_stored_draws(storage)]
    /\ ran' = <<>>
    /\ draws' = load_stored_draws(storage)
    /\ UNCHANGED <<stream, storage, use_database_storage>>

\* The caller is done with the result; a loaded history is not kept
\* between calls (every analysis loads the stored draws again).
StorageReturn ==
    /\ op # "idle"
    /\ op' = "idle"
    /\ args' = NoArgs
    /\ outcome' = "none"
    /\ result' = NoResult
    /\ ran' = <<>>
    /\ draws' = <<>>
    /\ UNCHANGED <<stream, storage, use_database_storage>>

StorageNext ==
    \/ CallSaveDraws
    \/ CallSyncDrawStorage
    \/ CallLoadStoredDraws
    \/ StorageReturn

StorageSpec == StorageInit /\ [][StorageNext]_vars

(***************************************************************************)
(* C1: calculate_number_frequencies returns a mapping whose keys are       *)
(* exactly 1..45 in ascending order and whose counts sum to 6 x draws.     *)
(***************************************************************************)
C1_FrequenciesTotal ==
    op = "calculate_number_frequencies" =>
        /\ outcome = "ok"
        /\ Keys(result.items) = [i \in 1..TOTAL_BALLS |-> i]
        /\ SumSeq(Values(result.items)) = BALLS_PER_DRAW * Len(draws)
        /\ \A i \in DOMAIN result.items :
               result.items[i][2] = CountOf(_flatten_numbers(draws), result.items[i][1])

C1_Witness ==
    /\ op = "calculate_number_frequencies"
    /\ Len(draws) = 2
    /\ draws[1].numbers = <<45, 3, 17, 22, 40, 8>>
    /\ Get(result.items, 45, -1) = 1
    /\ Get(result.items, 44, -1) = 0

(***************************************************************************)
(* C3: the two guards of the runs test are sufficient: with at least two   *)
(* observations and n0 > 0 and n1 > 0 the variance is strictly positive    *)
(* and a record is returned; the only failures are InsufficientData and    *)
(* DegenerateSequence.                                                     *)
(***************************************************************************)
RunsSequenceOf(name, ds) ==
    IF name = "runs_test_even_odd" THEN ParitySequence(ds)
    ELSE IF Len(ds) = 0 THEN <<>> ELSE SumSequence(ds)

C3_RunsGuardsSufficient ==
    op \in {"runs_test_even_odd", "runs_test_on_sums"} =>
        LET sequence == RunsSequenceOf(op, draws)
            n1 == SumSeq(sequence)
            n0 == Len(sequence) - n1
        IN  /\ outcome \in {"ok", "InsufficientData", "DegenerateSequence"}
            /\ (Len(sequence) >= 2 /\ n0 > 0 /\ n1 > 0) =>
                   /\ outcome = "ok"
                   /\ result.variance[1] > 0
                   /\ result.variance[2] > 0

(***************************************************************************)
(* C4: a strictly alternating sequence of even length n >= 2 gives a       *)
(* record with runs = n and expected_runs = n/2 + 1; a constant sequence   *)
(* of length >= 2 fails with DegenerateSequence and returns no record.     *)
(***************************************************************************)
IsAlternating(sequence) ==
    \A i \in 1..(Len(sequence) - 1) : sequence[i] # sequence[i + 1]

IsConstant(sequence) ==
    \A i \in 1..(Len(sequence) - 1) : sequence[i] = sequence[i + 1]

C4_AlternatingAndConstant ==
    op \in {"runs_test_even_odd", "runs_test_on_sums"} =>
        LET sequence == RunsSequenceOf(op, draws)
            n == Len(sequence)
        IN  /\ (n >= 2 /\ n % 2 = 0 /\ IsAlternating(sequence)) =>
                   /\ outcome = "ok"
                   /\ result.runs = n
                   /\ 2 * result.expected_runs[1] = (n + 2) * result.expected_runs[2]
            /\ (n >= 2 /\ IsConstant(sequence)) =>
                   /\ outcome = "DegenerateSequence"
                   /\ result = NoResult

(***************************************************************************)
(* C8: the exact expected-probability models are normalized: the parity    *)
(* and low/high category weights sum to C(45,6), the last-digit counts sum *)
(* to 45, so the expected counts sum to n (parity, low/high) and to 6n     *)
(* (last digit).                                                           *)
(***************************************************************************)
\* Sum of expected counts that share one denominator, as <<numerator, denominator>>.
ExpectedTotal(expected) ==
    <<SumSeq([i \in DOMAIN expected |-> expected[i][2][1]]), expected[1][2][2]>>

SameDenominator(expected) ==
    \A i \in DOMAIN expected : expected[i][2][2] = expected[1][2][2] /\ expected[i][2][2] > 0

C8_ExpectedNormalized ==
    /\ op \in {"parity_pattern_analysis", "low_high_pattern_analysis"} /\ outcome = "ok" =>
           /\ Len(result.expected) = BALLS_PER_DRAW + 1
           /\ SameDenominator(result.expected)
           /\ ExpectedTotal(result.expected)[1]
                  = Len(draws) * ExpectedTotal(result.expected)[2]
           /\ ExpectedTotal(result.expected)[2] = TOTAL_COMBINATIONS
    /\ op = "last_digit_analysis" /\ outcome = "ok" =>
           /\ Len(result.expected) = 10
           /\ SameDenominator(result.expected)
           /\ ExpectedTotal(result.expected)[1]
                  = BALLS_PER_DRAW * Len(draws) * ExpectedTotal(result.expected)[2]

C8_Witness ==
    /\ op = "parity_pattern_analysis"
    /\ outcome = "ok"
    /\ Len(draws) = 3
    /\ Get(result.expected, "3:3", <<0, 1>>)[1] = 3 * comb(23, 3) * comb(22, 3)

(***************************************************************************)
(* C2: for n >= 2 draws the four entries of the carry-over table are       *)
(* non-negative and sum to 45 x (n - 1).                                   *)
(***************************************************************************)
C2_CarryOverTableTotal ==
    op = "carry_over_analysis" /\ Len(draws) >= 2 =>
        /\ outcome = "ok"
        /\ \A i \in 1..2, j \in 1..2 : result.contingency_table[i][j] >= 0
        /\ result.contingency_table[1][1] + result.contingency_table[1][2]
               + result.contingency_table[2][1] + result.contingency_table[2][2]
               = TOTAL_BALLS * (Len(draws) - 1)

C2_Witness ==
    /\ op = "carry_over_analysis"
    /\ outcome = "ok"
    /\ Len(draws) = 3
    /\ draws[1].numbers = <<1, 2, 3, 4, 5, 6>>
    /\ draws[2].numbers = <<1, 3, 5, 7, 9, 11>>
    /\ draws[3].numbers = <<2, 4, 6, 8, 10, 12>>
    /\ result.contingency_table = << <<3, 9>>, <<9, 69>> >>

(***************************************************************************)
(* C5: every test enforces its minimum sample size: NoData on an empty     *)
(* history for the uniformity, parity-split, low/high and last-digit       *)
(* tests; InsufficientData below two draws for carry-over,                 *)
(* autocorrelation and the sum runs test; no record is returned.           *)
(***************************************************************************)
NoDataOps ==
    {"chi_square_uniformity_test", "parity_pattern_analysis",
     "low_high_pattern_analysis", "last_digit_analysis"}

InsufficientDataOps ==
    {"carry_over_analysis", "number_autocorrelation", "runs_test_on_sums"}

C5_MinimumSampleSize ==
    /\ op \in NoDataOps =>
           /\ Len(draws) = 0 => outcome = "NoData" /\ result = NoResult
           /\ outcome = "NoData" => Len(draws) = 0
    /\ op \in InsufficientDataOps =>
           /\ Len(draws) < 2 => outcome = "InsufficientData" /\ result = NoResult
           /\ outcome = "InsufficientData" => Len(draws) < 2

C5_WitnessNoData ==
    op = "last_digit_analysis" /\ Len(draws) = 0 /\ outcome = "NoData"

C5_Witness ==
    op = "carry_over_analysis" /\ Len(draws) = 1 /\ outcome = "InsufficientData"

(***************************************************************************)
(* C9: number_autocorrelation returns 45 results for the numbers 1..45 in  *)
(* ascending order; each result's lag entries are exactly the lags         *)
(* 1..min(max_lag, n-1) in ascending order with sample_size = n - lag; a   *)
(* lag >= n never appears.                                                 *)
(***************************************************************************)
C9_AutocorrelationLags ==
    op = "number_autocorrelation" /\ Len(draws) >= 2 =>
        /\ outcome = "ok"
        /\ Len(result.results) = TOTAL_BALLS
        /\ \A k \in 1..TOTAL_BALLS :
               LET r == result.results[k]
                   top == Min2(args.max_lag, Len(draws) - 1)
               IN  /\ r.number = k
                   /\ Len(r.lags) = (IF top > 0 THEN top ELSE 0)
                   /\ \A i \in DOMAIN r.lags :
                          /\ r.lags[i].lag = i
                          /\ r.lags[i].lag < Len(draws)
                          /\ r.lags[i].sample_size = Len(draws) - i

C9_Witness ==
    /\ op = "number_autocorrelation"
    /\ outcome = "ok"
    /\ Len(draws) = 2
    /\ args.max_lag = 3
    /\ Len(result.results[1].lags) = 1

(***************************************************************************)
(* C10: the Ljung-Box result is (null, null) exactly when the number has   *)
(* no lag entries; otherwise Q = n(n+2) * sum(coefficient^2 / (n - lag))   *)
(* is non-negative with as many degrees of freedom as entries; a constant  *)
(* indicator series has every coefficient 0 and Q = 0.                     *)
(***************************************************************************)
QOf(n, lags) ==
    RatMul(<<n * (n + 2), 1>>,
           RatSum([i \in DOMAIN lags |->
                      RatMul(RatMul(lags[i].coefficient, lags[i].coefficient),
                             <<1, n - lags[i].lag>>)]))

C10_LjungBox ==
    op = "number_autocorrelation" /\ outcome = "ok" =>
        \A k \in 1..TOTAL_BALLS :
            LET r == result.results[k]
                series == _binary_series_for_number(draws, k)
            IN  /\ (r.ljung_box_q = None) <=> (r.lags = <<>>)
                /\ (r.p_value = None) <=> (r.lags = <<>>)
                /\ r.lags # <<>> =>
                       /\ r.ljung_box_q[1] = QOf(Len(draws), r.lags)
                       /\ r.ljung_box_q[1][1] >= 0
                       /\ r.ljung_box_q[1][2] > 0
                       /\ r.p_value[1].df = Len(r.lags)
                /\ IsConstant(series) =>
                       /\ \A i \in DOMAIN r.lags : r.lags[i].coefficient = <<0, 1>>
                       /\ r.lags # <<>> => r.ljung_box_q[1] = <<0, 1>>

C10_Witness ==
    /\ op = "number_autocorrelation"
    /\ outcome = "ok"
    /\ Len(draws) = 3
    /\ args.max_lag = 2
    /\ result.results[1].ljung_box_q = Some(<<0, 1>>)
    /\ result.results[2].ljung_box_q # None
    /\ result.results[2].ljung_box_q # Some(<<0, 1>>)

(***************************************************************************)
(* C6: for a valid encoding and a history that yields at least 100 bits,   *)
(* with block_size >= 8, block_size not larger than the number of bits,    *)
(* and serial_block in 2..4, the suite returns exactly five records in the *)
(* order monobit_frequency, block_frequency, runs, serial,                 *)
(* cumulative_sums, with total_bits the length of the derived bit stream   *)
(* and the encoding that was requested.                                    *)
(***************************************************************************)
DerivedBits == _bit_sequence_from_draws(draws, args.encoding).value

\* The test a record belongs to: the serial record is named after its m.
TestOf(name) ==
    IF name \in {"serial_m" \o ToString(m) : m \in 2..4} THEN "serial" ELSE name

FiveRecordsReturned ==
    /\ outcome = "ok"
    /\ Len(result.tests) = 5
    /\ [i \in 1..5 |-> TestOf(result.tests[i].name)] = SuiteTestNames
    /\ result.tests[4].name = "serial_m" \o ToString(args.serial_block)
    /\ ran = SuiteTestNames
    /\ result.total_bits = Len(DerivedBits)
    /\ result.encoding = args.encoding

SuitePreconditions ==
    /\ op = "randomness_suite_summary"
    /\ args.encoding \in VALID_BIT_ENCODINGS
    /\ Len(DerivedBits) >= 100
    /\ args.block_size >= 8
    /\ args.serial_block \in 2..4

C6_SuiteFiveRecords ==
    SuitePreconditions /\ args.block_size <= Len(DerivedBits) => FiveRecordsReturned

\* The claim as stated, without the bound on block_size.
C6_Original ==
    SuitePreconditions => FiveRecordsReturned

C6_Witness ==
    /\ op = "randomness_suite_summary"
    /\ outcome = "ok"
    /\ args.encoding = "parity"
    /\ args.block_size = 8
    /\ args.serial_block = 4
    /\ result.total_bits = BALLS_PER_DRAW * LongLen
    /\ Len(result.tests) = 5

(***************************************************************************)
(* C7: precondition failures of the randomness suite happen before any of  *)
(* the five tests runs: an unknown encoding fails bit derivation with      *)
(* InvalidEncoding for every history, a derived stream of fewer than 100   *)
(* bits fails the suite with InsufficientBits; no test record is produced. *)
(***************************************************************************)
C7_SuitePreconditionFailures ==
    /\ op = "_bit_sequence_from_draws" /\ args.encoding \notin VALID_BIT_ENCODINGS =>
           outcome = "InvalidEncoding" /\ result = NoResult
    /\ op = "_bit_sequence_from_draws" /\ args.encoding \in VALID_BIT_ENCODINGS =>
           outcome = "ok"
    /\ op = "randomness_suite_summary" /\ Len(draws) > 0 =>
           /\ args.encoding \notin VALID_BIT_ENCODINGS =>
                  outcome = "InvalidEncoding"
           /\ args.encoding \in VALID_BIT_ENCODINGS /\ Len(DerivedBits) < 100 =>
                  outcome = "InsufficientBits"
    /\ op = "randomness_suite_summary"
           /\ outcome \in {"InvalidEncoding", "InsufficientBits"} =>
               ran = <<>> /\ result = NoResult

C7_Witness ==
    /\ op = "randomness_suite_summary"
    /\ outcome = "InsufficientBits"
    /\ args.encoding = "presence"
    /\ Len(draws) = 2
    /\ ran = <<>>

C7_WitnessInvalidEncoding ==
    /\ op = "randomness_suite_summary"
    /\ outcome = "InvalidEncoding"
    /\ Len(draws) = LongLen

(***************************************************************************)
(* C11: gap_histogram tallies the 5 consecutive differences of each draw's *)
(* ascending-sorted numbers: every key is an integer >= 1, the counts sum  *)
(* to 5 x draws, the keys ascend, each count is the number of neighbouring *)
(* pairs at that distance; an empty history gives the empty histogram, and *)
(* 10 draws that are all {1,..,6} give exactly {1: 50}.                    *)
(***************************************************************************)
\* The pairs <<draw, a, b>> of neighbouring numbers a < b of a draw.
NeighbourPairs(ds) ==
    UNION { { <<i, p[1], p[2]>> :
                p \in { q \in SeqToSet(ds[i].numbers) \X SeqToSet(ds[i].numbers) :
                          /\ q[1] < q[2]
                          /\ \A c \in SeqToSet(ds[i].numbers) :
                                 ~(q[1] < c /\ c < q[2]) } } :
            i \in DOMAIN ds }

C11_GapHistogram ==
    op = "gap_histogram" =>
        /\ outcome = "ok"
        /\ LET h == result.items IN
           /\ \A i \in DOMAIN h : h[i][1] \in Nat /\ h[i][1] >= 1 /\ h[i][2] >= 1
           /\ SumSeq(Values(h)) = 5 * Len(draws)
           /\ \A i \in 1..(Len(h) - 1) : h[i][1] < h[i + 1][1]
           /\ \A g \in 1..TOTAL_BALLS :
                  Get(h, g, 0) = Cardinality({t \in NeighbourPairs(draws) : t[3] - t[2] = g})
           /\ (Len(draws) = 0 => h = <<>>)
           /\ (Len(draws) = 10 /\ \A i \in DOMAIN draws :
                                      SeqToSet(draws[i].numbers) = 1..6)
                  => h = << <<1, 50>> >>

C11_Witness ==
    /\ op = "gap_histogram"
    /\ Len(draws) = 10
    /\ \A i \in DOMAIN draws : SeqToSet(draws[i].numbers) = 1..6
    /\ result.items = << <<1, 50>> >>

C11_WitnessUnsorted ==
    /\ op = "gap_histogram"
    /\ \E i \in DOMAIN draws : draws[i].numbers = <<45, 3, 17, 22, 40, 8>>
    /\ Get(result.items, 18, 0) >= 1

(***************************************************************************)
(* C12: on a non-empty history the uniformity test compares the 45         *)
(* observed per-number counts (number order 1..45, summing to 6n) against  *)
(* 45 equal expected counts of 6n/45; the statistic is non-negative and is *)
(* 0 exactly when every number's observed count equals 6n/45.              *)
(***************************************************************************)
TimesDrawn(ds, num) ==
    Cardinality({ij \in (DOMAIN ds) \X (1..BALLS_PER_DRAW) : ds[ij[1]].numbers[ij[2]] = num})

C12_UniformityStatistic ==
    op = "chi_square_uniformity_test" =>
        /\ (outcome = "ok") = (Len(draws) > 0)
        /\ outcome = "ok" =>
            LET n == Len(draws) IN
            /\ DOMAIN result.observed = 1..TOTAL_BALLS
            /\ DOMAIN result.expected = 1..TOTAL_BALLS
            /\ \A num \in 1..TOTAL_BALLS :
                   /\ result.observed[num] = TimesDrawn(draws, num)
                   /\ result.expected[num][2] > 0
                   /\ result.expected[num][1] * TOTAL_BALLS
                          = 6 * n * result.expected[num][2]
            /\ SumSeq(result.observed) = 6 * n
            /\ result.statistic[2] > 0
            /\ result.statistic[1] >= 0
            /\ (result.statistic[1] = 0)
                   = (\A num \in 1..TOTAL_BALLS :
                          result.observed[num] * TOTAL_BALLS = 6 * n)

C12_Witness ==
    /\ op = "chi_square_uniformity_test"
    /\ outcome = "ok"
    /\ Len(draws) = 15
    /\ result.statistic[1] = 0

C12_WitnessNonUniform ==
    /\ op = "chi_square_uniformity_test"
    /\ outcome = "ok"
    /\ result.statistic[1] > 0

(***************************************************************************)
(* C13: for a history of n draws the derived bit stream has length 45n     *)
(* under presence (the bit of draw i and number j is 1 iff j is in draw i, *)
(* 6 ones per draw), 6n under parity (one bit per drawn number in          *)
(* draw-then-number order, 1 iff odd) and 36n under binary, where every    *)
(* 6-bit group read most significant bit first decodes to the drawn number.*)
(***************************************************************************)
\* The k-th drawn number in draw-then-number order, k in 1..6n.
DrawnNumber(ds, k) ==
    ds[((k - 1) \div BALLS_PER_DRAW) + 1].numbers[((k - 1) % BALLS_PER_DRAW) + 1]

\* The value of the k-th group of six bits, first bit most significant.
DecodeGroup(b, k) ==
    32 * b[6 * (k - 1) + 1] + 16 * b[6 * (k - 1) + 2] + 8 * b[6 * (k - 1) + 3]
        + 4 * b[6 * (k - 1) + 4] + 2 * b[6 * (k - 1) + 5] + b[6 * (k - 1) + 6]

C13_BitStreamLayout ==
    (op = "_bit_sequence_from_draws" /\ outcome = "ok") =>
        LET n == Len(draws)
            b == result.bits
        IN  /\ \A i \in DOMAIN b : b[i] \in {0, 1}
            /\ args.encoding = "presence" =>
                /\ Len(b) = 45 * n
                /\ \A i \in 1..n :
                       /\ \A j \in 1..TOTAL_BALLS :
                              (b[45 * (i - 1) + j] = 1)
                                  = (j \in SeqToSet(draws[i].numbers))
                       /\ Cardinality({j \in 1..TOTAL_BALLS : b[45 * (i - 1) + j] = 1}) = 6
            /\ args.encoding = "parity" =>
                /\ Len(b) = 6 * n
                /\ \A k \in 1..(6 * n) : (b[k] = 1) = (DrawnNumber(draws, k) % 2 = 1)
            /\ args.encoding = "binary" =>
                /\ Len(b) = 36 * n
                /\ \A k \in 1..(6 * n) : DecodeGroup(b, k) = DrawnNumber(draws, k)
                /\ [k \in 1..(6 * n) |-> DecodeGroup(b, k)] = _flatten_numbers(draws)

C13_Witness ==
    /\ op = "_bit_sequence_from_draws"
    /\ outcome = "ok"
    /\ args.encoding = "binary"
    /\ Len(draws) >= 2
    /\ draws[2].numbers = <<45, 3, 17, 22, 40, 8>>
    /\ SubSeq(result.bits, 37, 48) = <<1, 0, 1, 1, 0, 1, 0, 0, 0, 0, 1, 1>>

C13_WitnessPresence ==
    /\ op = "_bit_sequence_from_draws"
    /\ args.encoding = "presence"
    /\ Len(draws) = 2
    /\ Len(result.bits) = 90

C13_WitnessParity ==
    /\ op = "_bit_sequence_from_draws"
    /\ args.encoding = "parity"
    /\ Len(draws) = 3
    /\ draws[1].numbers = <<45, 3, 17, 22, 40, 8>>
    /\ SubSeq(result.bits, 1, 6) = <<1, 1, 1, 0, 0, 0>>

(***************************************************************************)
(* C14: in the sum and the gap distribution comparison an empty simulated  *)
(* reference sample (sample_size = 0, or a supplied empty sample) makes    *)
(* the call fail with EmptyReference at the scaling step, before the       *)
(* chi-square and Kolmogorov-Smirnov comparisons, and no record is         *)
(* returned.                                                               *)
(***************************************************************************)
DistributionOps == {"sum_distribution_analysis", "gap_distribution_analysis"}

InternalReference == args.simulated = None

EmptyReferenceSample ==
    \/ InternalReference /\ args.sample_size = 0
    \/ ~InternalReference /\ Len(args.simulated[1].samples) = 0

C14_EmptyReference ==
    (op \in DistributionOps /\ EmptyReferenceSample) =>
        /\ outcome = "EmptyReference"
        /\ result = NoResult
        /\ ran = <<"scale">>

C14_Witness ==
    /\ op = "sum_distribution_analysis"
    /\ InternalReference
    /\ args.sample_size = 0
    /\ Len(draws) = 2
    /\ outcome = "EmptyReference"

C14_WitnessSupplied ==
    /\ op = "gap_distribution_analysis"
    /\ ~InternalReference
    /\ args.simulated[1].samples = <<>>
    /\ args.simulated[1].hist # <<>>
    /\ outcome = "EmptyReference"

(***************************************************************************)
(* C15: proportional scaling preserves the total: for the internally       *)
(* simulated reference the histogram counts sum to the number of simulated *)
(* samples and the scaled expected values sum to the observed total; the   *)
(* observed and expected histograms returned share one key set, the union  *)
(* of observed and simulated keys, with observed 0 on keys never observed  *)
(* and every expected value strictly positive, at least the epsilon floor. *)
(***************************************************************************)
\* The differences between neighbouring numbers of a set of drawn numbers.
GapSet(S) ==
    { q[2] - q[1] : q \in { r \in S \X S :
                              r[1] < r[2] /\ \A c \in S : ~(r[1] < c /\ c < r[2]) } }

ObservedValueSet ==
    IF op = "sum_distribution_analysis"
    THEN {SumSeq(draws[i].numbers) : i \in DOMAIN draws}
    ELSE UNION {GapSet(SeqToSet(draws[i].numbers)) : i \in DOMAIN draws}

ObservedValueCount(v) ==
    IF op = "sum_distribution_analysis"
    THEN Cardinality({i \in DOMAIN draws : SumSeq(draws[i].numbers) = v})
    ELSE Cardinality({t \in NeighbourPairs(draws) : t[3] - t[2] = v})

ObservedTotal ==
    IF op = "sum_distribution_analysis" THEN Len(draws) ELSE 5 * Len(draws)

SimulatedValueSet ==
    IF ~InternalReference THEN KeySet(args.simulated[1].hist)
    ELSE IF op = "sum_distribution_analysis"
    THEN {SumSeq(args.rng[i]) : i \in DOMAIN args.rng}
    ELSE UNION {GapSet(SeqToSet(args.rng[i])) : i \in DOMAIN args.rng}

SimulatedHistogram ==
    IF op = "sum_distribution_analysis"
    THEN _simulate_reference_draws(args.rng).sum_hist
    ELSE _simulate_reference_draws(args.rng).gap_hist

SimulatedTotal ==
    IF op = "sum_distribution_analysis" THEN args.sample_size ELSE 5 * args.sample_size

SelectKeys(items, S) ==
    LET idx == AscendingSeq({i \in DOMAIN items : items[i][1] \in S})
    IN  [k \in DOMAIN idx |-> items[idx[k]]]

C15_ScalingPreservesTotal ==
    op \in DistributionOps =>
        /\ (InternalReference /\ args.sample_size > 0) =>
               /\ SumSeq(Values(SimulatedHistogram)) = SimulatedTotal
               /\ RatSum(Values(_scale_simulated_hist(SimulatedHistogram, SimulatedTotal,
                                                      ObservedTotal).value))
                      = <<ObservedTotal, 1>>
        /\ outcome = "ok" =>
               LET observed == result.observed_histogram
                   expected == result.expected_histogram
               IN  /\ Keys(observed) = Keys(expected)
                   /\ KeySet(observed) = ObservedValueSet \cup SimulatedValueSet
                   /\ Len(observed) = Cardinality(KeySet(observed))
                   /\ \A i \in DOMAIN observed :
                          observed[i][2] = ObservedValueCount(observed[i][1])
                   /\ \A i \in DOMAIN observed :
                          observed[i][1] \notin ObservedValueSet => observed[i][2] = 0
                   /\ \A i \in DOMAIN expected :
                          /\ expected[i][2][1] > 0
                          /\ expected[i][2][2] > 0
                          /\ expected[i][2][2] <= EPSILON[2]
                   /\ InternalReference =>
                          RatSum(Values(SelectKeys(expected, SimulatedValueSet)))
                              = <<ObservedTotal, 1>>

C15_Witness ==
    /\ op = "sum_distribution_analysis"
    /\ outcome = "ok"
    /\ InternalReference
    /\ args.sample_size = 2
    /\ Len(draws) = 3
    /\ \E i \in DOMAIN result.observed_histogram :
           /\ result.observed_histogram[i][2] = 0
           /\ result.expected_histogram[i][2] = <<3, 2>>
    /\ \E i \in DOMAIN result.expected_histogram :
           /\ result.expected_histogram[i][2] = EPSILON
           /\ result.observed_histogram[i][2] > 0

C15_WitnessGap ==
    /\ op = "gap_distribution_analysis"
    /\ outcome = "ok"
    /\ InternalReference
    /\ \E i \in DOMAIN result.expected_histogram : result.expected_histogram[i][2] = EPSILON

(***************************************************************************)
(* C17: the composed summaries never return a partial result:              *)
(* summarize_draws returns its mapping (total_draws, chi_square,           *)
(* runs_test, gap_histogram, frequency) only if every component succeeded, *)
(* and when a component fails the whole call fails with that component's   *)
(* error and no value; the same holds for dependency_summary; a failed     *)
(* call leaves the history as it was, so a later call sees the same input. *)
(***************************************************************************)
SummaryOps == {"summarize_draws", "dependency_summary"}

SummarizeComponents ==
    <<chi_square_uniformity_test(draws), runs_test_even_odd(draws)>>

DependencyComponents ==
    <<number_autocorrelation(draws, args.max_lag), carry_over_analysis(draws)>>

\* The error of the first component that failed, "ok" if none did.
FirstFailure(components) ==
    IF \A i \in DOMAIN components : components[i].outcome = "ok" THEN "ok"
    ELSE components[CHOOSE i \in DOMAIN components :
                        /\ components[i].outcome # "ok"
                        /\ \A j \in 1..(i - 1) : components[j].outcome = "ok"].outcome

C17_NoPartialSummary_State ==
    /\ op \in SummaryOps /\ outcome # "ok" => result = NoResult
    /\ op = "summarize_draws" =>
        /\ Len(draws) = 0 => outcome = "NoData"
        /\ Len(draws) > 0 => outcome = FirstFailure(SummarizeComponents)
        /\ outcome = "ok" =>
            /\ DOMAIN result = {"kind", "total_draws", "chi_square", "runs_test",
                                "gap_histogram", "frequency"}
            /\ result.total_draws = Len(draws)
            /\ result.chi_square = SummarizeComponents[1].value
            /\ result.runs_test = SummarizeComponents[2].value
            /\ result.runs_test # NoResult
            /\ result.gap_histogram = gap_histogram(draws)
            /\ result.frequency = calculate_number_frequencies(draws)
    /\ op = "dependency_summary" =>
        /\ Len(draws) < 2 => outcome = "InsufficientData"
        /\ Len(draws) >= 2 => outcome = FirstFailure(DependencyComponents)
        /\ outcome = "ok" =>
            /\ result.autocorrelation = DependencyComponents[1].value.results
            /\ result.carry_over = DependencyComponents[2].value

C17_NoPartialSummary ==
    /\ []C17_NoPartialSummary_State
    /\ [][(op' \in SummaryOps /\ outcome' # "ok") => draws' = draws]_vars

C17_Witness ==
    /\ op = "summarize_draws"
    /\ Len(draws) = 2
    /\ \A i \in DOMAIN draws : draws[i].numbers = <<1, 3, 5, 7, 9, 11>>
    /\ outcome = "DegenerateSequence"
    /\ result = NoResult
    /\ ran = <<"chi_square_uniformity_test", "runs_test_even_odd">>

C17_WitnessComplete ==
    /\ op = "summarize_draws"
    /\ outcome = "ok"
    /\ Len(draws) = 3

C17_WitnessDependency ==
    /\ op = "dependency_summary"
    /\ outcome = "ok"
    /\ Len(draws) = 3

(***************************************************************************)
(* C16: no analysis operation modifies the draw history it is given: over  *)
(* any sequence of calls to the frequency, uniformity, gap, runs,          *)
(* autocorrelation, carry-over, pattern, distribution and bit-derivation   *)
(* operations the sequence of draws and the order of the numbers inside    *)
(* every draw stay as they were, and each operation returns what it        *)
(* returns when called alone on that history.                              *)
(***************************************************************************)
\* What the operation of the current call returns on the history by itself.
ResultAlone ==
    CASE op = "calculate_number_frequencies" ->
             Ok([kind |-> "frequencies", items |-> calculate_number_frequencies(draws)])
      [] op = "chi_square_uniformity_test" -> chi_square_uniformity_test(draws)
      [] op = "gap_histogram" ->
             Ok([kind |-> "gap_histogram", items |-> gap_histogram(draws)])
      [] op = "runs_test_even_odd" -> runs_test_even_odd(draws)
      [] op = "runs_test_on_sums" -> runs_test_on_sums(draws)
      [] op = "number_autocorrelation" -> number_autocorrelation(draws, args.max_lag)
      [] op = "carry_over_analysis" -> carry_over_analysis(draws)
      [] op = "parity_pattern_analysis" -> parity_pattern_analysis(draws)
      [] op = "low_high_pattern_analysis" -> low_high_pattern_analysis(draws)
      [] op = "last_digit_analysis" -> last_digit_analysis(draws)
      [] op = "sum_distribution_analysis" ->
             sum_distribution_analysis(draws, args.rng, args.simulated)
      [] op = "gap_distribution_analysis" ->
             gap_distribution_analysis(draws, args.rng, args.simulated)
      [] op = "_bit_sequence_from_draws" ->
             LET r == _bit_sequence_from_draws(draws, args.encoding)
             IN  IF r.outcome = "ok" THEN Ok([kind |-> "bits", bits |-> r.value]) ELSE r
      [] OTHER -> [outcome |-> outcome, value |-> result]

C16_ResultAsAlone ==
    op # "idle" => outcome = ResultAlone.outcome /\ result = ResultAlone.value

SumOfDraw(i) ==
    draws[i].numbers[1] + draws[i].numbers[2] + draws[i].numbers[3]
        + draws[i].numbers[4] + draws[i].numbers[5] + draws[i].numbers[6]

\* The k-th smallest draw sum, by counting.
KthSmallestSum(k) ==
    CHOOSE v \in {SumOfDraw(i) : i \in DOMAIN draws} :
        /\ Cardinality({i \in DOMAIN draws : SumOfDraw(i) < v}) < k
        /\ k <= Cardinality({i \in DOMAIN draws : SumOfDraw(i) <= v})

\* Twice the median of the draw sums (history not empty).
TwiceMedianOfSums ==
    LET n == Len(draws)
    IN  IF n % 2 = 1 THEN 2 * KthSmallestSum((n + 1) \div 2)
        ELSE KthSmallestSum(n \div 2) + KthSmallestSum(n \div 2 + 1)

OnesAgainstMedian ==
    Cardinality({i \in DOMAIN draws : 2 * SumOfDraw(i) >= TwiceMedianOfSums})

C20_SumRunsMedian ==
    op = "runs_test_on_sums" =>
        LET n == Len(draws) IN
        /\ n < 2 => outcome = "InsufficientData"
        /\ n >= 2 =>
            /\ OnesAgainstMedian >= n - OnesAgainstMedian
            /\ (outcome = "DegenerateSequence")
                   = (\A i \in DOMAIN draws : ~(2 * SumOfDraw(i) < TwiceMedianOfSums))
            /\ outcome = "ok" =>
                /\ result.median_threshold[1] * 2
                       = TwiceMedianOfSums * result.median_threshold[2]
                /\ result.total_observations = n
                /\ result.runs
                       = 1 + Cardinality({i \in 1..(n - 1) :
                               (2 * SumOfDraw(i) >= TwiceMedianOfSums)
                                   # (2 * SumOfDraw(i + 1) >= TwiceMedianOfSums)})

C20_Witness ==
    /\ op = "runs_test_on_sums"
    /\ outcome = "ok"
    /\ Len(draws) = 3
    /\ result.median_threshold = <<72, 2>>
    /\ result.total_observations = 3
    /\ result.runs = 3

C20_WitnessDegenerate ==
    /\ op = "runs_test_on_sums"
    /\ outcome = "DegenerateSequence"
    /\ Len(draws) = 3
    /\ \E i, j \in DOMAIN draws : SumOfDraw(i) < SumOfDraw(j)

(***************************************************************************)
(* C18: for every bit sequence of length n >= 100 with equally many ones   *)
(* and zeros the monobit test reports s_obs = 0 and passed = true; for the *)
(* strictly alternating 100-bit sequence the runs test does not take the   *)
(* immediate-fail branch and reports V = 100.                              *)
(***************************************************************************)
OnesOf(b) == Cardinality({i \in DOMAIN b : b[i] = 1})

StrictlyAlternating(b) == \A i \in 1..(Len(b) - 1) : b[i] # b[i + 1]

C18_BalancedSequences ==
    /\ (op = "_frequency_monobit_test"
            /\ Len(stream) >= 100 /\ 2 * OnesOf(stream) = Len(stream)) =>
           /\ outcome = "ok"
           /\ result.statistic = Some([abs_sum |-> 0, n |-> Len(stream)])
           /\ result.p_value = <<1, 1>>
           /\ result.passed = TRUE
    /\ (op = "_runs_test" /\ Len(stream) = 100 /\ StrictlyAlternating(stream)) =>
           /\ outcome = "ok"
           /\ result.detail.immediate_fail = FALSE
           /\ result.statistic = Some(100)

C18_Witness ==
    /\ op = "_runs_test"
    /\ stream = PatternBits(<<0, 1>>, 100)
    /\ result.statistic = Some(100)

C18_WitnessMonobit ==
    /\ op = "_frequency_monobit_test"
    /\ stream = PatternBits(<<0, 0, 1, 1>>, 100)
    /\ result.passed

(***************************************************************************)
(* C19: the passed flag of every suite record is decided against the       *)
(* threshold 0.01: the serial test passes iff both p1 >= 0.01 and          *)
(* p2 >= 0.01, the cumulative-sums test passes iff both the forward and    *)
(* the backward p-value are >= 0.01 and reports p_value = min(forward,     *)
(* backward), and for every record passed = true implies that the reported *)
(* p_value is >= 0.01.                                                     *)
(***************************************************************************)
\* p >= 0.01 for a p-value <<numerator, denominator>>; false for NaN.
NotBelowThreshold(p) == p[2] > 0 /\ 100 * p[1] >= p[2]

RandomnessTests ==
    {"_frequency_monobit_test", "_block_frequency_test", "_runs_test",
     "_serial_test", "_cumulative_sums_test"}

C19_PassedAgainstThreshold ==
    (op \in RandomnessTests /\ outcome = "ok") =>
        /\ result.passed => NotBelowThreshold(result.p_value)
        /\ op = "_serial_test" =>
               result.passed = (NotBelowThreshold(result.p_value)
                                    /\ NotBelowThreshold(result.detail.p_value2))
        /\ op = "_cumulative_sums_test" =>
               LET forward == result.detail.p_value_forward.p_value
                   backward == result.detail.p_value_backward.p_value
               IN  /\ result.passed = (NotBelowThreshold(forward)
                                           /\ NotBelowThreshold(backward))
                   /\ result.p_value \in {forward, backward}
                   /\ forward[1] * result.p_value[2] >= result.p_value[1] * forward[2]
                   /\ backward[1] * result.p_value[2] >= result.p_value[1] * backward[2]
        /\ op \in {"_frequency_monobit_test", "_block_frequency_test"} =>
               result.passed = NotBelowThreshold(result.p_value)

C19_Witness ==
    /\ op = "_serial_test"
    /\ outcome = "ok"
    /\ result.p_value = <<11, 1000>>
    /\ result.detail.p_value2 = <<9, 1000>>
    /\ result.passed = FALSE

C19_WitnessCumulativeSums ==
    /\ op = "_cumulative_sums_test"
    /\ outcome = "ok"
    /\ result.detail.p_value_forward.p_value = <<1, 1>>
    /\ result.detail.p_value_backward.p_value = <<1, 100>>
    /\ result.p_value = <<1, 100>>
    /\ result.passed = TRUE

C19_WitnessNaN ==
    /\ op = "_serial_test"
    /\ outcome = "ok"
    /\ result.detail.p_value2 = NaN

(***************************************************************************)
(* C21: in each pattern test every draw is classified into exactly one     *)
(* category and the observed mapping has exactly the category keys of the  *)
(* expected mapping, in the same order and including keys with count 0:    *)
(* the 7 keys k:6-k for k = 0..6 (k = number of odd numbers for the parity *)
(* split, k = number of numbers <= 22 for the low/high split) and the 10   *)
(* digits 0..9 (digit = number mod 10) for the last-digit test.  Observed  *)
(* counts sum to the number of draws (parity, low/high) or to 6 x draws    *)
(* (last digit), which is also the sum of the expected counts.             *)
(***************************************************************************)
\* Numbers of one draw that are odd / that are at most 22 / that end in digit.
OddNumbersOf(draw) == {x \in SeqToSet(draw.numbers) : x % 2 = 1}

LowNumbersOf(draw) == {x \in SeqToSet(draw.numbers) : x <= 22}

NumbersEndingIn(draw, digit) == {x \in SeqToSet(draw.numbers) : x % 10 = digit}

\* Draws of the history that fall into category k of the split.
DrawsInCategory(k) ==
    IF op = "parity_pattern_analysis"
    THEN {i \in DOMAIN draws : Cardinality(OddNumbersOf(draws[i])) = k}
    ELSE {i \in DOMAIN draws : Cardinality(LowNumbersOf(draws[i])) = k}

SplitKeys == <<"0:6", "1:5", "2:4", "3:3", "4:2", "5:1", "6:0">>

DigitKeys == <<"0", "1", "2", "3", "4", "5", "6", "7", "8", "9">>

C21_PatternCategories ==
    /\ (op \in {"parity_pattern_analysis", "low_high_pattern_analysis"} /\ outcome = "ok") =>
           /\ Keys(result.observed) = SplitKeys
           /\ Keys(result.expected) = SplitKeys
           /\ \A k \in 0..6 :
                  result.observed[k + 1][2] = Cardinality(DrawsInCategory(k))
           /\ \A i \in DOMAIN draws : \E k \in 0..6 : i \in DrawsInCategory(k)
           /\ SumSeq(Values(result.observed)) = Len(draws)
           /\ ExpectedTotal(result.expected)[1]
                  = SumSeq(Values(result.observed)) * ExpectedTotal(result.expected)[2]
    /\ (op = "last_digit_analysis" /\ outcome = "ok") =>
           /\ Keys(result.observed) = DigitKeys
           /\ Keys(result.expected) = DigitKeys
           /\ \A digit \in 0..9 :
                  result.observed[digit + 1][2]
                      = SumSeq([i \in DOMAIN draws |->
                                   Cardinality(NumbersEndingIn(draws[i], digit))])
           /\ SumSeq(Values(result.observed)) = 6 * Len(draws)
           /\ ExpectedTotal(result.expected)[1]
                  = SumSeq(Values(result.observed)) * ExpectedTotal(result.expected)[2]

\* A low/high split with empty categories: one draw falls into 4:2, two into 6:0.
C21_Witness ==
    /\ op = "low_high_pattern_analysis"
    /\ outcome = "ok"
    /\ Len(draws) = 3
    /\ Values(result.observed) = <<0, 0, 0, 0, 1, 0, 2>>

C21_WitnessLastDigit ==
    /\ op = "last_digit_analysis"
    /\ outcome = "ok"
    /\ Len(draws) = 2
    /\ SumSeq(Values(result.observed)) = 12
    /\ \E j \in 1..10 : result.observed[j][2] = 0

(***************************************************************************)
(* C22: for a bit sequence of length n and block size m > 0 the            *)
(* block-frequency test fails exactly when n < m (a sequence of length     *)
(* exactly m is accepted); otherwise it uses floor(n / m) non-overlapping  *)
(* blocks taken from the start, ignores the trailing n mod m bits, and its *)
(* statistic equals the sum over blocks of (2 * ones_in_block - m)^2 / m,  *)
(* which is non-negative and 0 iff every block has exactly m / 2 ones.     *)
(***************************************************************************)
\* Positions of the b-th block (b from 1) of size m, and the ones among them.
BlockPositions(b, m) == ((b - 1) * m + 1)..(b * m)

OnesAt(positions) == Cardinality({i \in positions : stream[i] = 1})

BlockDeviationSquares(m) ==
    [b \in 1..(Len(stream) \div m) |->
        (2 * OnesAt(BlockPositions(b, m)) - m) * (2 * OnesAt(BlockPositions(b, m)) - m)]

C22_WitnessTrailing ==
    /\ op = "_block_frequency_test"
    /\ outcome = "ok"
    /\ args.block_size = 8
    /\ Len(stream) = 101
    /\ result.detail.num_blocks = 12
    /\ result.statistic[1][1] > 0

C22_WitnessTooShort ==
    /\ op = "_block_frequency_test"
    /\ outcome = "BlockSizeExceedsLength"
    /\ args.block_size = 100
    /\ Len(stream) = 99

(***************************************************************************)
(* C23: for a bit sequence of length n >= 100 with k ones, the runs test   *)
(* returns the immediate-fail record (statistic null, p_value 0, passed    *)
(* false) exactly when |k/n - 1/2| >= 2/sqrt(n), i.e. (2k - n)^2 >= 16n;   *)
(* otherwise it reports V = 1 + number of adjacent unequal bit pairs, and  *)
(* in that branch both bit values occur (0 < k < n), so the divisor        *)
(* 2*sqrt(2n)*pi*(1-pi) is non-zero.                                       *)
(***************************************************************************)
OnesInStream == Cardinality({i \in DOMAIN stream : stream[i] = 1})

UnequalNeighbours ==
    Cardinality({i \in 1..(Len(stream) - 1) : stream[i] # stream[i + 1]})

C23_RunsPrecheck ==
    (op = "_runs_test" /\ Len(stream) >= 100) =>
        LET n == Len(stream)
            k == OnesInStream
        IN  /\ outcome = "ok"
            /\ (result.statistic = None) = ((2 * k - n) * (2 * k - n) >= 16 * n)
            /\ result.statistic = None =>
                   /\ result.p_value = <<0, 1>>
                   /\ result.passed = FALSE
            /\ result.statistic # None =>
                   /\ result.statistic = Some(1 + UnequalNeighbours)
                   /\ 0 < k
                   /\ k < n

\* The same statement away from the boundary (2k - n)^2 = 16n.
C23_RunsPrecheckOffBoundary ==
    (op = "_runs_test" /\ Len(stream) >= 100
        /\ (2 * OnesInStream - Len(stream)) * (2 * OnesInStream - Len(stream))
               # 16 * Len(stream)) =>
        C23_RunsPrecheck

\* 100 bits with 70 ones: on the boundary, and the computed branch is taken.
C23_BoundaryComputed ==
    /\ op = "_runs_test"
    /\ Len(stream) = 100
    /\ OnesInStream = 70
    /\ result.statistic # None

\* 100 bits with 30 ones: on the boundary, and the immediate-fail record.
C23_BoundaryImmediateFail ==
    /\ op = "_runs_test"
    /\ Len(stream) = 100
    /\ OnesInStream = 30
    /\ result.statistic = None

(***************************************************************************)
(* C24: in the cumulative-sums p-value, for every sequence length n and    *)
(* maximum absolute partial sum z with 1 <= z <= n, the summation index    *)
(* bounds are the mathematical floors: the first sum runs over k from      *)
(* floor((-n/z + 1)/4) to floor((n/z - 1)/4) and the second over k from    *)
(* floor((-n/z - 3)/4) to floor((n/z - 1)/4).                              *)
(***************************************************************************)
\* floor(a / b) for b > 0.
FloorDiv(a, b) == a \div b

FloorBounds(p, n) ==
    (~p.trivial /\ 1 <= p.z /\ p.z <= n) =>
        /\ p.start_k1 = FloorDiv(p.z - n, 4 * p.z)
        /\ p.end_k1 = FloorDiv(n - p.z, 4 * p.z)
        /\ p.start_k2 = FloorDiv(-n - 3 * p.z, 4 * p.z)
        /\ p.end_k2 = FloorDiv(n - p.z, 4 * p.z)

C24_FloorBounds ==
    (op = "_cumulative_sums_test" /\ outcome = "ok") =>
        /\ FloorBounds(result.detail.p_value_forward, Len(stream))
        /\ FloorBounds(result.detail.p_value_backward, Len(stream))

\* The upper bounds are never negative, so truncation and floor agree there.
C24_UpperBoundsAreFloors ==
    (op = "_cumulative_sums_test" /\ outcome = "ok") =>
        \A p \in {result.detail.p_value_forward, result.detail.p_value_backward} :
            ~p.trivial =>
                /\ p.end_k1 = FloorDiv(Len(stream) - p.z, 4 * p.z)
                /\ p.end_k2 = FloorDiv(Len(stream) - p.z, 4 * p.z)

\* n = 100, z = 1: (-100 + 1) / 4 = -24.75 is truncated to -24, its floor is -25.
C24_TruncatedLowerBound ==
    /\ op = "_cumulative_sums_test"
    /\ outcome = "ok"
    /\ Len(stream) = 100
    /\ result.detail.p_value_forward.z = 1
    /\ result.detail.p_value_forward.start_k1 = -24
    /\ FloorDiv(1 - 100, 4) = -25

(***************************************************************************)
(* C25: the serial test's block length is constrained to 2 <= m <= 4: a    *)
(* call with m outside that range (m < 2 or m > 4) fails and produces no   *)
(* record, and a call with m inside the range on a sequence of at least m  *)
(* bits produces a record named after m.                                   *)
(***************************************************************************)
C25_SerialBlockRange ==
    op = "_serial_test" =>
        LET m == args.serial_block IN
        /\ (m < 2 \/ m > 4) => (outcome # "ok" /\ result = NoResult)
        /\ (2 <= m /\ m <= 4 /\ Len(stream) >= m) =>
               (outcome = "ok" /\ result.name = "serial_m" \o ToString(m))

\* The part of the statement the serial test does enforce: m < 2 fails,
\* and every m >= 2 on at least m bits gives a record named after m.
C25_SerialLowerBoundOnly ==
    op = "_serial_test" =>
        LET m == args.serial_block IN
        /\ m < 2 => (outcome = "InvalidSerialBlock" /\ result = NoResult)
        /\ (2 <= m /\ Len(stream) >= m) =>
               (outcome = "ok" /\ result.name = "serial_m" \o ToString(m))

\* The range 2..4 is enforced by the query validation of the HTTP route.
C25_RouteRejectsOutOfRange ==
    op = "postLottoRandomnessSuite" =>
        /\ (args.serial_block < 2 \/ args.serial_block > 4) =>
               (outcome = "RequestValidationError" /\ result = NoResult /\ ran = <<>>)
        /\ (outcome = "ok" /\ args.serial_block = 4) =>
               result.tests[4].name = "serial_m4"

C25_RouteWitness ==
    /\ op = "postLottoRandomnessSuite"
    /\ outcome = "ok"
    /\ args.serial_block = 4

\* m = 5 is accepted by the serial test itself.
C25_LargeBlockAccepted ==
    /\ op = "_serial_test"
    /\ args.serial_block = 5
    /\ outcome = "ok"
    /\ result.name = "serial_m5"

(***************************************************************************)
(* C26: after any sequence of save_draws and sync_draw_storage calls       *)
(* (successful or failed), the history returned by load_stored_draws and   *)
(* handed to the analysis engine is strictly ascending by draw_no, so it   *)
(* contains no two draws with the same draw_no; when the same draw_no is   *)
(* saved more than once (in one call, or again in a later call), exactly   *)
(* one record for it remains after the save.                               *)
(***************************************************************************)
StrictlyAscendingByDrawNo(history) ==
    \A i \in 1..(Len(history) - 1) : history[i].draw_no < history[i + 1].draw_no

RecordsFor(history, no) == {i \in DOMAIN history : history[i].draw_no = no}

C26_WitnessSavedTwice ==
    /\ op = "save_draws"
    /\ outcome = "ok"
    /\ Len(args.saved) = 2
    /\ args.saved[1].draw_no = 2
    /\ args.saved[2].draw_no = 2
    /\ args.saved[1].numbers # args.saved[2].numbers
    /\ storage = <<args.saved[2]>>

(***************************************************************************)
(* C30: sync_draw_storage is all-or-nothing: when the remote latest draw   *)
(* number L is not greater than the stored maximum P it stores nothing and *)
(* reports inserted = 0; when L > P and every fetch succeeds it stores the *)
(* draws P+1..L (each number exactly once, ascending) and reports          *)
(* inserted = L - P with previous_max = P; when any fetch fails, the       *)
(* stored history is the same as before the call.  (A sync that fetched    *)
(* everything and then could not write leaves the history unchanged too.)  *)
(***************************************************************************)
\* The largest stored draw number, 0 for an empty store.
StoredMaximum(history) ==
    IF history = <<>> THEN 0
    ELSE CHOOSE m \in {history[i].draw_no : i \in DOMAIN history} :
             \A i \in DOMAIN history : history[i].draw_no <= m

DrawNumbers(history) == [i \in DOMAIN history |-> history[i].draw_no]

\* Whether a fetch of the call fails: the latest draw's, or one in P+1..L-1.
SomeFetchFails(P, L, failing) == failing = L \/ (L > P /\ failing \in (P + 1)..(L - 1))

C30_SyncStep ==
    (op = "idle" /\ op' = "sync_draw_storage") =>
        LET P == StoredMaximum(storage)
            L == args'.latest_no
            fetch_fails == SomeFetchFails(P, L, args'.failing)
        IN  /\ fetch_fails => (outcome' # "ok" /\ storage' = storage)
            /\ outcome' # "ok" => storage' = storage
            /\ (~fetch_fails /\ L <= P) =>
                   /\ outcome' = "ok"
                   /\ result'.inserted = 0
                   /\ result'.draws = <<>>
                   /\ storage' = storage
            /\ (~fetch_fails /\ L > P /\ ~args'.write_fails) =>
                   /\ outcome' = "ok"
                   /\ result'.inserted = L - P
                   /\ result'.previous_max = P
                   /\ result'.latest = L
                   /\ DrawNumbers(result'.draws) = [k \in 1..(L - P) |-> P + k]
                   /\ storage' = storage \o result'.draws

C30_SyncAllOrNothing == [][C30_SyncStep]_vars

\* Two draws stored, the remote site is at MaxDrawNo: the rest is added.
C30_Witness ==
    /\ op = "sync_draw_storage"
    /\ outcome = "ok"
    /\ result.previous_max = 1
    /\ result.inserted = MaxDrawNo - 1
    /\ Len(storage) = MaxDrawNo

\* A fetch in the middle fails and nothing was stored.
C30_WitnessFetchFails ==
    /\ op = "sync_draw_storage"
    /\ outcome = "FetchError"
    /\ args.latest_no = MaxDrawNo
    /\ args.failing = 2
    /\ storage = <<>>

C30_WitnessNothingNew ==
    /\ op = "sync_draw_storage"
    /\ outcome = "ok"
    /\ result.inserted = 0
    /\ result.latest < result.previous_max

(***************************************************************************)
(* C27: for every non-empty bit sequence the maximum absolute partial sum  *)
(* of the +1/-1 mapped bits is at least 1 in both the forward and the      *)
(* backward direction (the first partial sum is +1 or -1), so inside the   *)
(* cumulative-sums test, which requires n >= 100, the z = 0 branch that    *)
(* returns p = 1 is never taken; the forward and backward final partial    *)
(* sums are equal.                                                         *)
(***************************************************************************)
\* The sum of the +1/-1 mapped bits at the given positions of the stream.
MappedSum(positions) ==
    2 * Cardinality({i \in positions : stream[i] # 0}) - Cardinality(positions)

ForwardPartialSum(k) == MappedSum(1..k)

BackwardPartialSum(k) == MappedSum((Len(stream) - k + 1)..Len(stream))

LargestOf(S) == CHOOSE m \in S : \A x \in S : x <= m

ForwardExcursion == LargestOf({Abs(ForwardPartialSum(k)) : k \in DOMAIN stream})

BackwardExcursion == LargestOf({Abs(BackwardPartialSum(k)) : k \in DOMAIN stream})

C27_CumulativeSumsNonTrivial ==
    (op = "_cumulative_sums_test" /\ stream # <<>>) =>
        /\ Abs(ForwardPartialSum(1)) = 1
        /\ Abs(BackwardPartialSum(1)) = 1
        /\ ForwardExcursion >= 1
        /\ BackwardExcursion >= 1
        /\ ForwardPartialSum(Len(stream)) = BackwardPartialSum(Len(stream))
        /\ (outcome # "ok") = (Len(stream) < 100)
        /\ outcome = "ok" =>
               /\ result.statistic = Some(ForwardExcursion)
               /\ ~result.detail.p_value_forward.trivial
               /\ ~result.detail.p_value_backward.trivial
               /\ result.detail.p_value_forward.z = ForwardExcursion
               /\ result.detail.p_value_backward.z = BackwardExcursion

\* Zeros then ones: the excursion is 50 forward and backward, the total is 0.
C27_Witness ==
    /\ op = "_cumulative_sums_test"
    /\ outcome = "ok"
    /\ stream = HalfHalf(100)
    /\ result.detail.p_value_forward.z = 50
    /\ result.detail.p_value_backward.z = 50
    /\ ForwardPartialSum(100) = 0

\* The two directions differ in their excursion.
C27_WitnessDirectionsDiffer ==
    /\ op = "_cumulative_sums_test"
    /\ outcome = "ok"
    /\ result.detail.p_value_forward.z # result.detail.p_value_backward.z

(***************************************************************************)
(* C28: for every history of n >= 2 draws of 6 distinct numbers in 1..45   *)
(* the carry-over table [[a, b], [c, d]] has fixed marginals:              *)
(* a + b = 6(n-1), c + d = 39(n-1) and a + c = 6(n-1); a is the total      *)
(* number of numbers shared by consecutive draws,                          *)
(* previous_hit_probability = a / (6(n-1)) and                             *)
(* previous_miss_probability = c / (39(n-1)), so no row or column total is *)
(* zero and the independence test never sees a zero expected cell.         *)
(***************************************************************************)
\* Numbers that draw i shares with the draw before it.
SharedWithPrevious(i) ==
    {x \in 1..TOTAL_BALLS :
        /\ \E k \in DOMAIN draws[i].numbers : draws[i].numbers[k] = x
        /\ \E k \in DOMAIN draws[i - 1].numbers : draws[i - 1].numbers[k] = x}

TotalShared == SumSeq([k \in 1..(Len(draws) - 1) |-> Cardinality(SharedWithPrevious(k + 1))])

\* The rational p equals num / den.
RatEquals(p, num, den) == p[2] # 0 /\ den # 0 /\ p[1] * den = num * p[2]

C28_CarryOverMarginals ==
    (op = "carry_over_analysis" /\ Len(draws) >= 2) =>
        /\ outcome = "ok"
        /\ LET n == Len(draws)
               a == result.contingency_table[1][1]
               b == result.contingency_table[1][2]
               c == result.contingency_table[2][1]
               d == result.contingency_table[2][2]
           IN  /\ a + b = 6 * (n - 1)
               /\ c + d = 39 * (n - 1)
               /\ a + c = 6 * (n - 1)
               /\ b + d = 39 * (n - 1)
               /\ a = TotalShared
               /\ RatEquals(result.previous_hit_probability, a, 6 * (n - 1))
               /\ RatEquals(result.previous_miss_probability, c, 39 * (n - 1))
               /\ a + b > 0 /\ c + d > 0 /\ a + c > 0 /\ b + d > 0
               /\ \A i \in 1..2, j \in 1..2 :
                      /\ result.expected[i][j][1] > 0
                      /\ result.expected[i][j][2] > 0

\* Three draws sharing 3 and then 0 numbers: a = 3, c = 9.
C28_Witness ==
    /\ op = "carry_over_analysis"
    /\ outcome = "ok"
    /\ Len(draws) = 3
    /\ TotalShared = 3
    /\ result.contingency_table = << <<3, 9>>, <<9, 69>> >>
    /\ result.previous_hit_probability = <<3, 12>>

\* The same draw twice: every number is carried over, c = 0 and b = 0.
C28_WitnessAllCarried ==
    /\ op = "carry_over_analysis"
    /\ outcome = "ok"
    /\ Len(draws) = 2
    /\ result.contingency_table = << <<6, 0>>, <<0, 39>> >>

(***************************************************************************)
(* C29: for every bit sequence of length n >= m and every m in 2..4, the   *)
(* cyclic window counts used by psi^2(k) sum to n for each k in 1..m       *)
(* (exactly n wrapped windows are counted), psi^2(0) = 0, and the serial   *)
(* statistic delta1 = psi^2(m) - psi^2(m-1) is non-negative.               *)
(***************************************************************************)
\* Bit t (from the left) of the k-bit pattern with value v.
PatternBit(v, k, t) == (v \div (2 ^ (k - t))) % 2

\* Start positions whose k-bit window, wrapped around the end of the
\* stream, shows the pattern v.
WindowsShowing(v, k) ==
    {i \in DOMAIN stream :
        \A t \in 1..k : stream[((i + t - 2) % Len(stream)) + 1] = PatternBit(v, k, t)}

WindowCounts(k) == [j \in 1..(2 ^ k) |-> Cardinality(WindowsShowing(j - 1, k))]

SquaredCountTotal(k) ==
    SumSeq([j \in 1..(2 ^ k) |-> WindowCounts(k)[j] * WindowCounts(k)[j]])

C29_SerialWindows ==
    (op = "_serial_test" /\ args.serial_block \in 2..4
        /\ Len(stream) >= args.serial_block) =>
        LET m == args.serial_block
            n == Len(stream)
        IN  /\ outcome = "ok"
            /\ \A k \in 1..m : SumSeq(WindowCounts(k)) = n
            /\ _psi2(stream, 0) = <<0, 1>>
            /\ result.statistic[1][2] > 0
            /\ result.statistic[1][1] >= 0
            \* delta1 * n = 2^m * sum(count_m^2) - 2^(m-1) * sum(count_(m-1)^2)
            /\ result.statistic[1][1] * n
                   = ((2 ^ m) * SquaredCountTotal(m)
                          - (2 ^ (m - 1)) * SquaredCountTotal(m - 1))
                         * result.statistic[1][2]

\* A constant sequence: psi^2(3) = 7n, psi^2(2) = 3n, delta1 = 4n.
C29_Witness ==
    /\ op = "_serial_test"
    /\ outcome = "ok"
    /\ args.serial_block = 3
    /\ Len(stream) = 100
    /\ result.statistic = Some(<<400, 1>>)

\* delta1 = 0: every 2-bit window and every single bit is equally frequent.
C29_WitnessZero ==
    /\ op = "_serial_test"
    /\ outcome = "ok"
    /\ args.serial_block = 2
    /\ result.statistic = Some(<<0, 1>>)

====
